---- MODULE Spec2Model ----
(***************************************************************************)
(* A model of the single-domain crawl engine SiteParser.parse              *)
(* (src/src/site_parser/core/parser.py) together with the URL              *)
(* canonicaliser (urls.py), the focus scorer (focus.py), the link filter   *)
(* (extract.py) and the gates of HttpClient.fetch (infra/http_client.py).  *)
(*                                                                         *)
(* A URL is a record of the parts urlsplit() yields.  Text operations of   *)
(* Python (str.lower, str.startswith, tokenising) are given by tables over *)
(* the finite universe of strings the modelled sites use.                  *)
(***************************************************************************)
EXTENDS Integers, Sequences, FiniteSets, TLC

\* ------------------------------------------------------------------ bounds
\* max_pages ranges over 0..MaxPagesBound
MaxPagesBound == 4
\* max_depth ranges over 0..MaxDepthBound
MaxDepthBound == 2
\* max_concurrency ranges over 0..MaxConcBound
MaxConcBound == 2
\* on the layered site max_pages ranges over 0..MaxPagesLayers
MaxPagesLayers == 6
\* on the layered site max_depth ranges over 0..MaxDepthLayers
MaxDepthLayers == 3
\* a body comes in at most MaxChunks chunks
MaxChunks == 2
\* a chunk holds at most MaxChunkLen bytes
MaxChunkLen == 2
\* max_body_bytes ranges over 0..MaxBodyBound when bodies are read
MaxBodyBound == 3

\* ------------------------------------------------------- text primitives
\* The operators on texts take their text as a value: `\E v \in {s}` and
\* `CHOOSE r \in {f(v) : v \in {s}} : TRUE` evaluate s once, where a bare
\* parameter would be evaluated anew at each of its uses.
\* str.lower() over the schemes and hosts of the universe
Lower(s) ==
    CASE s = "HTTP" -> "http"
      [] s = "HTTPS" -> "https"
      [] s = "WWW.A.COM" -> "www.a.com"
      [] s = "B.RU" -> "b.ru"
      [] OTHER -> s

\* host.startswith("www.")
StartsWithWww(h) == h \in {"www.a.com", "www.b.ru"}

\* host[4:] for a host that starts with "www."
DropWww(h) ==
    CASE h = "www.a.com" -> "a.com"
      [] h = "www.b.ru" -> "b.ru"
      [] OTHER -> h

\* the non-empty "/"-separated segments of a (lowercased) path
PathSegments(p) ==
    CASE p = "/contact" -> <<"contact">>
      [] p = "/docs" -> <<"docs">>
      [] p = "/a" -> <<"a">>
      [] p = "/b" -> <<"b">>
      [] p = "/c" -> <<"c">>
      [] p = "/x" -> <<"x">>
      [] p = "/y" -> <<"y">>
      [] p = "/z" -> <<"z">>
      [] p = "/v" -> <<"v">>
      [] p = "/w" -> <<"w">>
      [] p = "/a/b" -> <<"a", "b">>
      [] p = "/file.pdf" -> <<"file.pdf">>
      [] OTHER -> <<>>

\* _TOKEN_RE.findall over a path: the [a-z0-9]+ runs
PathTokens(p) ==
    IF p = "/file.pdf" THEN {"file", "pdf"}
    ELSE {PathSegments(p)[i] : i \in 1..Len(PathSegments(p))}

\* _TOKEN_RE.findall over a query
QueryTokens(q) ==
    CASE q = "x=1" -> {"x", "1"}
      [] q = "x=2" -> {"x", "2"}
      [] OTHER -> {}

\* posixpath.splitext(path)[1].lstrip(".")
PathExt(p) == IF p = "/file.pdf" THEN "pdf" ELSE ""

\* the characters of the universe's contacts, in code point order
Alphabet == "+-.0123456789@_abcdefghijklmnopqrstuvwxyz"

\* the place of a character in that order, standing for ord()
Ord(c) == CHOOSE i \in 1..Len(Alphabet) : SubSeq(Alphabet, i, i) = c

\* str.__lt__: a proper prefix first, else the first differing character
RECURSIVE StrLess(_, _)
StrLess(a, b) ==
    IF b = "" THEN FALSE
    ELSE IF a = "" THEN TRUE
    ELSE IF Head(a) # Head(b) THEN Ord(Head(a)) < Ord(Head(b))
    ELSE StrLess(Tail(a), Tail(b))

\* a listing in descending order
RECURSIVE sorted_descending(_)
sorted_descending(values) ==
    IF values = {} THEN <<>>
    ELSE LET greatest == CHOOSE v \in values : \A w \in values \ {v} : StrLess(w, v)
         IN  <<greatest>> \o sorted_descending(values \ {greatest})

\* sorted() of a set of strings
RECURSIVE sorted(_)
sorted(values) ==
    IF values = {} THEN <<>>
    ELSE LET least == CHOOSE v \in values : \A w \in values \ {v} : StrLess(v, w)
         IN  <<least>> \o sorted(values \ {least})

\* ------------------------------------------------------------------- URLs
\* urlsplit(): scheme, hostname, port (0: none), path, query, fragment
MkUrl(s, h, pt, p, q, f) ==
    [scheme |-> s, host |-> h, port |-> pt, path |-> p, query |-> q, frag |-> f]

\* an absolute http URL with no port, query or fragment
Http(h, p) == MkUrl("http", h, 0, p, "", "")

\* a relative href: a path, a query and a fragment only
Rel(p, q, f) == MkUrl("", "", 0, p, q, f)

strip_www(hostname) ==
    LET host == Lower(hostname)
    IN  IF StartsWithWww(host) THEN DropWww(host) ELSE host

\* str.partition(sep)[0]: the text before the first sep, all of it if none
RECURSIVE PartitionHead(_, _)
PartitionHead(s, sep) ==
    CHOOSE r \in { IF v = "" THEN ""
                   ELSE IF Head(v) = sep THEN ""
                   ELSE Head(v) \o PartitionHead(Tail(v), sep) : v \in {s} } : TRUE

\* str.partition(sep)[2]: the text after the first sep, empty if none
RECURSIVE PartitionTail(_, _)
PartitionTail(s, sep) ==
    CHOOSE r \in { IF v = "" THEN ""
                   ELSE IF Head(v) = sep THEN Tail(v)
                   ELSE PartitionTail(Tail(v), sep) : v \in {s} } : TRUE

\* whether the character occurs in the text
RECURSIVE HasChar(_, _)
HasChar(s, c) ==
    \E v \in {s} : v # "" /\ (Head(v) = c \/ HasChar(Tail(v), c))

\* parts.hostname, the host field being the host as the netloc writes it:
\* the text between brackets if there is an opening bracket, else the text
\* before the first colon; lowercased; "" stands for None.  Each step is
\* evaluated once, on the value of the step before.
hostname(url) ==
    LET Bracketed(host) ==
            CHOOSE part \in { PartitionHead(inner, "]") :
                                inner \in {PartitionTail(host, "[")} } : TRUE
        Named(host) ==
            IF HasChar(host, "[") THEN Bracketed(host) ELSE PartitionHead(host, ":")
    IN  CHOOSE name \in { Lower(part) :
                            part \in { Named(host) : host \in {url.host} } } : TRUE

\* hostname_key raises ValueError on a missing hostname: "" stands for it
hostname_key(url) == strip_www(hostname(url))

\* scheme://netloc
origin(url) == [scheme |-> url.scheme, host |-> url.host, port |-> url.port]

\* hostname.strip(".").split(".")[-1] over the hosts of the universe
Tld(h) ==
    CASE h \in {"a.com", "www.a.com", "c.com"} -> "com"
      [] h \in {"b.ru", "www.b.ru"} -> "ru"
      [] OTHER -> ""

\* the region map, at the TLDs of the universe; ZZ: no region
infer_phone_region(url) ==
    IF hostname(url) = "" THEN "ZZ"
    ELSE CASE Tld(hostname(url)) = "ru" -> "RU"
           [] OTHER -> "ZZ"

\* lines 64-65 and 134-135: the regions inferred from a URL
InferredRegions(url) ==
    IF infer_phone_region(url) # "ZZ" THEN <<infer_phone_region(url)>> ELSE <<>>

\* a canonicaliser that accepts every scheme
normalize_ok_any_scheme(url) == hostname(url) # ""

\* whether normalize_url returns (TRUE) or raises ValueError (FALSE)
normalize_ok(url) ==
    /\ Lower(url.scheme) \in {"http", "https"}
    /\ hostname(url) # ""

normalize_url(url, include_query) ==
    LET scheme == Lower(url.scheme)
        host == Lower(hostname(url))
        has_default_port == \/ (scheme = "http" /\ url.port = 80)
                            \/ (scheme = "https" /\ url.port = 443)
    IN  MkUrl(scheme,
              host,
              IF url.port = 0 \/ has_default_port THEN 0 ELSE url.port,
              IF url.path = "" THEN "/" ELSE url.path,
              IF include_query THEN url.query ELSE "",
              "")

\* a same-domain test that accepts every host
is_same_domain_any(url, base_hostname_key) == hostname(url) # ""

is_same_domain(url, base_hostname_key) ==
    /\ hostname(url) # ""
    /\ strip_www(hostname(url)) = base_hostname_key

\* urllib.parse.urljoin(base, href) for the href shapes of the universe:
\* absolute, scheme-relative, absolute-path, query-only and fragment-only
urljoin(base, href) ==
    IF href.scheme # "" THEN href
    ELSE IF href.host # "" THEN [href EXCEPT !.scheme = base.scheme]
    ELSE IF href.path # "" THEN
        MkUrl(base.scheme, base.host, base.port, href.path, href.query, href.frag)
    ELSE IF href.query # "" THEN
        MkUrl(base.scheme, base.host, base.port, base.path, href.query, href.frag)
    ELSE MkUrl(base.scheme, base.host, base.port, base.path, base.query, href.frag)

is_probably_parseable_href(href) ==
    Lower(href.scheme) \notin {"mailto", "tel", "javascript", "data"}

\* ------------------------------------------------------------ focus scorer
KeywordWeight(token) ==
    CASE token = "contact" -> -50
      [] token = "docs" -> 40
      [] OTHER -> 0

ExtensionWeight(ext) ==
    CASE ext = "pdf" -> 250
      [] OTHER -> 0

RECURSIVE SumWeights(_)
SumWeights(tokens) ==
    IF tokens = {} THEN 0
    ELSE LET t == CHOOSE x \in tokens : TRUE
         IN  KeywordWeight(t) + SumWeights(tokens \ {t})

Min(a, b) == IF a <= b THEN a ELSE b

Max(a, b) == IF a >= b THEN a ELSE b

url_priority_score(url) ==
    LET path == IF url.path = "" THEN "/" ELSE url.path
        tokens == PathTokens(path) \cup QueryTokens(url.query)
    IN  SumWeights(tokens)
        + (IF url.query # "" THEN 10 ELSE 0)
        + Min(Len(PathSegments(path)), 10)
        + ExtensionWeight(PathExt(path))
        + (IF path \in {"/", "/index.html", "/index.htm"} THEN -5 ELSE 0)

\* ------------------------------------------------------------ HTTP fetch
\* What the network answers for a GET: a transport error or a raised worker
\* exception, else the final status, Content-Type and post-redirect URL, and
\* the content of the body (hrefs in document order, contacts, and whether
\* BeautifulSoup parses it).
Answer(error, status, ctype, url, hrefs, emails, phones, soup) ==
    [error |-> error, status |-> status, ctype |-> ctype, url |-> url,
     hrefs |-> hrefs, emails |-> emails, phones |-> phones, soup |-> soup,
     chunks |-> <<>>, scripts |-> <<>>]

\* an answer whose body comes in the given chunks (sequences of bytes)
WithBody(answer, chunks) == [answer EXCEPT !.chunks = chunks]

\* an answer whose document holds the given inline scripts
WithScripts(answer, scripts) == [answer EXCEPT !.scripts = scripts]

Html == "text/html; charset=utf-8"

Page(url, hrefs, emails, phones) ==
    Answer("none", 200, Html, url, hrefs, emails, phones, TRUE)

\* the test server's answer for an unknown route
NotFound(url) == Answer("none", 404, "text/plain", url, <<>>, {}, {}, TRUE)

\* str.lower() over the Content-Type values of the universe
LowerType(content_type) ==
    CASE content_type = "TEXT/HTML" -> "text/html"
      [] content_type = "Text/Plain; Charset=UTF-8" -> "text/plain; charset=utf-8"
      [] OTHER -> content_type

\* `token in value` over the lowercased Content-Type values of the universe
Contains(value, token) ==
    CASE token = "text/html" ->
           value \in {"text/html", "text/html; charset=utf-8", "text/htmlx"}
      [] token = "text/plain" ->
           value \in {"text/plain", "text/plain; charset=utf-8"}
      [] token = "application/xhtml+xml" ->
           value \in {"application/xhtml+xml"}
      [] OTHER -> FALSE

\* a gate that allows only a missing header
_is_allowed_only_if_missing(content_type) == content_type = ""

_is_allowed_content_type(content_type) ==
    LET value == LowerType(content_type)
        allowed == {"text/html", "application/xhtml+xml", "text/plain"}
    IN  \/ value = ""
        \/ \E token \in allowed : Contains(value, token)

Response(site, url) == IF url \in DOMAIN site THEN site[url] ELSE NotFound(url)

NoPage == [final_url |-> Http("", ""), hrefs |-> <<>>, emails |-> {},
           phones |-> {}, soup |-> FALSE, body |-> <<>>, scripts |-> <<>>]

\* the for loop of _read_limited_body from chunk `next` on: what has been
\* collected and how many chunks iter_content has been asked for
RECURSIVE ReadChunks(_, _, _, _)
ReadChunks(chunks, max_bytes, collected, next) ==
    IF next > Len(chunks) THEN [collected |-> collected, read |-> Len(chunks)]
    ELSE LET chunk == chunks[next]
         IN  IF chunk = <<>>
             THEN ReadChunks(chunks, max_bytes, collected, next + 1)
             ELSE IF Len(collected \o chunk) > max_bytes
                 THEN [collected |-> collected \o chunk, read |-> next]
                 ELSE ReadChunks(chunks, max_bytes, collected \o chunk, next + 1)

\* collected[:max_bytes], for max_bytes >= 0
Truncate(collected, max_bytes) ==
    SubSeq(collected, 1, Min(Len(collected), max_bytes))

\* a reader that returns all it has collected
_read_limited_body_untruncated(chunks, max_bytes) ==
    ReadChunks(chunks, max_bytes, <<>>, 1).collected

_read_limited_body(chunks, max_bytes) ==
    Truncate(ReadChunks(chunks, max_bytes, <<>>, 1).collected, max_bytes)

FetchOutcome(raised, ok, reason, page) ==
    [raised |-> raised, ok |-> ok, reason |-> reason, page |-> page]

\* the page fetch returns when every gate is passed
Fetched(r, include_query, max_body_bytes) ==
    FetchOutcome(FALSE, TRUE, "ok",
        [final_url |-> normalize_url(r.url, include_query),
         hrefs |-> r.hrefs, emails |-> r.emails,
         phones |-> r.phones, soup |-> r.soup, scripts |-> r.scripts,
         body |-> _read_limited_body(r.chunks, max_body_bytes)])

\* a fetch that looks at the Content-Type before the status
fetchTypeBeforeStatus(site, url, client) ==
    LET r == Response(site, url)
    IN  IF r.error = "raise" THEN FetchOutcome(TRUE, FALSE, "", NoPage)
        ELSE IF r.error = "request_error"
            THEN FetchOutcome(FALSE, FALSE, "request_error", NoPage)
        ELSE IF ~_is_allowed_content_type(r.ctype)
            THEN FetchOutcome(FALSE, FALSE, "content_type", NoPage)
        ELSE IF r.status >= 400
            THEN FetchOutcome(FALSE, FALSE, "http_status", NoPage)
        ELSE IF r.error = "body_error"
            THEN FetchOutcome(FALSE, FALSE, "request_error", NoPage)
        ELSE IF ~normalize_ok(r.url)
            THEN FetchOutcome(FALSE, FALSE, "url_normalize", NoPage)
        ELSE Fetched(r, client.include_query, client.max_body_bytes)

\* HttpClient.fetch, `client` being the settings the client holds: the
\* outcome of one GET, or an exception that is neither
\* a ValueError nor a RequestException and so leaves the worker task.  The
\* error of an answer is "request_error" when session.get raises a
\* RequestException (no response), "body_error" when reading the body does,
\* "raise" for any other exception, "none" otherwise.
fetch(site, url, client) ==
    LET r == Response(site, url)
    IN  IF r.error = "raise" THEN FetchOutcome(TRUE, FALSE, "", NoPage)
        ELSE IF r.error = "request_error"
            THEN FetchOutcome(FALSE, FALSE, "request_error", NoPage)
        ELSE IF r.status >= 400
            THEN FetchOutcome(FALSE, FALSE, "http_status", NoPage)
        ELSE IF ~_is_allowed_content_type(r.ctype)
            THEN FetchOutcome(FALSE, FALSE, "content_type", NoPage)
        ELSE IF r.error = "body_error"
            THEN FetchOutcome(FALSE, FALSE, "request_error", NoPage)
        ELSE IF ~normalize_ok(r.url)
            THEN FetchOutcome(FALSE, FALSE, "url_normalize", NoPage)
        ELSE Fetched(r, client.include_query, client.max_body_bytes)

Reasons == {"http_status", "content_type", "url_normalize", "request_error",
            "future_exception"}

\* --------------------------------------------------------- text of contacts
\* str.lstrip(chars)
RECURSIVE lstrip(_, _)
lstrip(s, chars) ==
    CHOOSE r \in { IF v # "" /\ HasChar(chars, Head(v))
                   THEN lstrip(Tail(v), chars) ELSE v : v \in {s} } : TRUE

\* str.rstrip(chars)
RECURSIVE rstrip(_, _)
rstrip(s, chars) ==
    CHOOSE r \in { IF v # "" /\ HasChar(chars, SubSeq(v, Len(v), Len(v)))
                   THEN rstrip(SubSeq(v, 1, Len(v) - 1), chars)
                   ELSE v : v \in {s} } : TRUE

\* str.strip(): the white space of the universe is the blank
strip(s) == rstrip(lstrip(s, " "), " ")

\* str.lower() of one character
LowerChar(c) ==
    LET upper == "ABCDEFGHIJKLMNOPQRSTUVWXYZ"
        lower == "abcdefghijklmnopqrstuvwxyz"
    IN  CHOOSE r \in
          { IF \E k \in 1..Len(upper) : SubSeq(upper, k, k) = v
            THEN SubSeq(lower, CHOOSE k \in 1..Len(upper) : SubSeq(upper, k, k) = v,
                               CHOOSE k \in 1..Len(upper) : SubSeq(upper, k, k) = v)
            ELSE v : v \in {c} } : TRUE

\* str.lower(), character by character
RECURSIVE str_lower(_)
str_lower(s) ==
    CHOOSE r \in { IF v = "" THEN ""
                   ELSE LowerChar(Head(v)) \o str_lower(Tail(v)) : v \in {s} } : TRUE

\* str.startswith(prefix)
startswith(s, prefix) ==
    Len(prefix) <= Len(s) /\ SubSeq(s, 1, Len(prefix)) = prefix

\* str.endswith(suffix)
endswith(s, suffix) ==
    Len(suffix) <= Len(s) /\ SubSeq(s, Len(s) - Len(suffix) + 1, Len(s)) = suffix

\* str.rpartition(sep)[2]: the text after the last sep, all of it if none
RECURSIVE RPartitionTail(_, _)
RPartitionTail(s, sep) ==
    CHOOSE r \in { IF ~HasChar(v, sep) THEN v
                   ELSE RPartitionTail(PartitionTail(v, sep), sep) : v \in {s} } : TRUE

\* str.rpartition(sep)[0]: the text before the last sep, for a text with one
RPartitionHead(s, sep) ==
    CHOOSE r \in { SubSeq(v, 1, Len(v) - Len(RPartitionTail(v, sep)) - 1) :
                     v \in {s} } : TRUE

\* --------------------------------------------------------------- e-mails
\* validate_email(value, check_deliverability=False) of the email_validator
\* library, as far as the universe goes: an address is a non-empty local
\* part, an "@", and a domain with a dot inside it and no blank anywhere
validate_email_ok(value) ==
    /\ HasChar(value, "@")
    /\ ~HasChar(value, " ")
    /\ RPartitionHead(value, "@") # ""
    /\ ~HasChar(RPartitionHead(value, "@"), "@")
    /\ LET domain == RPartitionTail(value, "@")
       IN  /\ HasChar(domain, ".")
           /\ ~startswith(domain, ".")
           /\ ~endswith(domain, ".")

\* its .normalized: the domain lowercased
validate_email_normalized(value) ==
    RPartitionHead(value, "@") \o "@" \o str_lower(RPartitionTail(value, "@"))

\* tuple(dict.fromkeys(list)): first occurrences, in order
RECURSIVE Deduped(_)
Deduped(list) ==
    IF list = <<>> THEN <<>>
    ELSE LET rest == Deduped(SubSeq(list, 1, Len(list) - 1))
             last == list[Len(list)]
         IN  IF \E i \in 1..Len(rest) : rest[i] = last THEN rest
             ELSE Append(rest, last)

\* the list without its empty strings
RECURSIVE NonEmpty(_)
NonEmpty(list) ==
    IF list = <<>> THEN <<>>
    ELSE IF Head(list) = "" THEN NonEmpty(Tail(list))
    ELSE <<Head(list)>> \o NonEmpty(Tail(list))

\* <<>> stands for None as well as for the empty tuple
_normalize_email_domains(allowlist) ==
    Deduped(NonEmpty([i \in 1..Len(allowlist) |->
        lstrip(lstrip(str_lower(strip(allowlist[i])), "@"), ".")]))

\* a test that lets the domain end with the suffix at any place
_domain_allowed_without_dot(email, allowlist) ==
    /\ HasChar(email, "@")
    /\ LET domain == str_lower(RPartitionTail(email, "@"))
       IN  \E i \in 1..Len(allowlist) :
              domain = allowlist[i] \/ endswith(domain, allowlist[i])

_domain_allowed(email, allowlist) ==
    /\ HasChar(email, "@")
    /\ LET domain == str_lower(RPartitionTail(email, "@"))
       IN  \E i \in 1..Len(allowlist) :
              domain = allowlist[i] \/ endswith(domain, "." \o allowlist[i])

\* "" stands for None
_normalize_email(candidate, allowed_domains) ==
    LET Allowed(normalized) ==
            IF allowed_domains # <<>> /\ ~_domain_allowed(normalized, allowed_domains)
            THEN ""
            ELSE normalized
    IN  CHOOSE email \in
          { IF value = "" THEN ""
            ELSE IF ~validate_email_ok(value) THEN ""
            ELSE CHOOSE kept \in
                   { Allowed(normalized) :
                       normalized \in {str_lower(validate_email_normalized(value))} } :
                   TRUE :
            value \in {strip(candidate)} } : TRUE

\* the address of a mailto href, the href being split as urlsplit does: the
\* text after the colon and before "?" is its path; "" stands for None
_parse_mailto(href) == strip(PartitionHead(href.path, ","))

\* chr() of a decimal character reference, for the codes of the universe
Chr(digits) ==
    CASE digits = "64" -> "@"
      [] digits = "46" -> "."
      [] digits = "97" -> "a"
      [] digits = "105" -> "i"
      [] digits = "111" -> "o"
      [] digits = "117" -> "u"
      [] OTHER -> ""

\* html.unescape over decimal character references &#N;
RECURSIVE html_unescape(_)
html_unescape(s) ==
    IF s = "" THEN ""
    ELSE IF /\ startswith(s, "&#")
            /\ HasChar(s, ";")
            /\ Chr(PartitionHead(SubSeq(s, 3, Len(s)), ";")) # ""
        THEN Chr(PartitionHead(SubSeq(s, 3, Len(s)), ";"))
                 \o html_unescape(PartitionTail(s, ";"))
        ELSE Head(s) \o html_unescape(Tail(s))

\* A token of a right-hand side, as token_re finds it: a quoted literal
\* (its text between the quotes) or an identifier.
Literal(text) == [kind |-> "literal", text |-> text]

Ident(name) == [kind |-> "ident", text |-> name]

\* A statement of a script, as _split_js_statements and the match of line
\* 124 yield it: the variable assigned ("" when the statement is no addy
\* assignment) and the tokens of the right-hand side.
Assign(name, expr) == [target |-> name, expr |-> expr]

\* A script: whether its text contains "cloak" or "addy", and its statements
Script(trigger, statements) == [trigger |-> trigger, statements |-> statements]

\* an evaluation that looks no identifier up
RECURSIVE _eval_js_concat_literals_only(_, _)
_eval_js_concat_literals_only(expr, variables) ==
    IF expr = <<>> THEN ""
    ELSE (IF Head(expr).kind = "literal" THEN html_unescape(Head(expr).text) ELSE "")
             \o _eval_js_concat_literals_only(Tail(expr), variables)

\* `variables` is a function from the bound names to their values
RECURSIVE _eval_js_concat(_, _)
_eval_js_concat(expr, variables) ==
    IF expr = <<>> THEN ""
    ELSE LET token == Head(expr)
             piece == IF token.kind = "literal" THEN html_unescape(token.text)
                      ELSE IF token.text \in DOMAIN variables
                          THEN variables[token.text]
                      ELSE ""
         IN  piece \o _eval_js_concat(Tail(expr), variables)

\* lines 119-135, the loop over the statements of one script: the variable
\* table, and the values with an "@", in the order they were evaluated
RECURSIVE EvalStatements(_, _)
EvalStatements(statements, st) ==
    IF statements = <<>> THEN st
    ELSE LET statement == Head(statements)
             value == _eval_js_concat(statement.expr, st.variables)
         IN  IF statement.target = "" \/ value = ""
             THEN EvalStatements(Tail(statements), st)
             ELSE EvalStatements(Tail(statements),
                    [variables |-> (statement.target :> value) @@ st.variables,
                     values |-> IF HasChar(value, "@")
                                THEN Append(st.values, value) ELSE st.values])

\* a fresh variable table
NoVariables == [variables |-> <<>>, values |-> <<>>]

\* the values one script submits as candidates
CloakedValues(script) ==
    IF ~script.trigger THEN <<>>
    ELSE EvalStatements(script.statements, NoVariables).values

_extract_cloaked_emails(scripts, allowed_domains) ==
    UNION { { _normalize_email(CloakedValues(scripts[i])[j], allowed_domains) :
                j \in 1..Len(CloakedValues(scripts[i])) } :
            i \in 1..Len(scripts) } \ {""}

\* extract_emails(page_text, allowlist, soup): page.emails are the matches of
\* _EMAIL_RE in the text, stripped of surrounding punctuation
extract_emails(page, allowlist) ==
    LET allowed_domains == _normalize_email_domains(allowlist)
        mailto == { i \in 1..Len(page.hrefs) :
                      /\ Lower(page.hrefs[i].scheme) = "mailto"
                      /\ _parse_mailto(page.hrefs[i]) # "" }
    IN  ( { _normalize_email(c, allowed_domains) : c \in page.emails }
          \cup { _normalize_email(_parse_mailto(page.hrefs[i]), allowed_domains) :
                   i \in mailto }
          \cup _extract_cloaked_emails(page.scripts, allowed_domains) ) \ {""}

\* ----------------------------------------------------------------- phones
\* the digits of a number as written, its separators and its "+" left out
RECURSIVE DigitsOf(_)
DigitsOf(raw) ==
    CHOOSE r \in { IF v = "" THEN ""
                   ELSE IF HasChar("0123456789", Head(v))
                   THEN Head(v) \o DigitsOf(Tail(v))
                   ELSE DigitsOf(Tail(v)) : v \in {raw} } : TRUE

\* the numbering plans of the universe: country calling code and national
\* (trunk) prefix of a region; no entry for ZZ
CallingCode(region) ==
    CASE region = "RU" -> "7"
      [] region = "GB" -> "44"
      [] OTHER -> ""

TrunkPrefix(region) ==
    CASE region = "RU" -> "8"
      [] region = "GB" -> "0"
      [] OTHER -> ""

\* _parse_phone: phonenumbers.parse(raw, region) as far as the universe goes,
\* a number being held as its E.164 text and "" standing for None.  A number
\* written with "+" carries its calling code; any other is read in the plan
\* of the region, and cannot be read without one.
_parse_phone(raw, region) ==
    CHOOSE number \in
      { IF digits = "" THEN ""
        ELSE IF startswith(strip(raw), "+") THEN "+" \o digits
        ELSE IF CallingCode(region) = "" THEN ""
        ELSE IF startswith(digits, TrunkPrefix(region))
            THEN "+" \o CallingCode(region)
                     \o SubSeq(digits, Len(TrunkPrefix(region)) + 1, Len(digits))
        ELSE "+" \o CallingCode(region) \o digits :
        digits \in {DigitsOf(raw)} } : TRUE

\* _is_valid: is_possible_number and is_valid_number, for the plans of the
\* universe: a calling code of the universe and ten digits after it
_is_valid(number) ==
    \E code \in {"1", "7", "44"} :
        /\ startswith(number, "+" \o code)
        /\ Len(number) = 1 + Len(code) + 10

\* re.sub(r"^(?:00|011)", "+", raw.strip())
_normalize_idd_prefix(raw) ==
    LET value == strip(raw)
    IN  IF startswith(value, "00") THEN "+" \o SubSeq(value, 3, Len(value))
        ELSE IF startswith(value, "011") THEN "+" \o SubSeq(value, 4, Len(value))
        ELSE value

\* the number of a tel href, the href being split as urlsplit does: its path
\* is the text after the colon and before "?"; "" stands for None
_parse_tel(href) == strip(PartitionHead(href.path, ";"))

\* a reading that falls back on the plan of RU when no region is given
RECURSIVE _parse_phone_with_regions_or_ru(_, _)
_parse_phone_with_regions_or_ru(raw, regions) ==
    IF regions = <<>> THEN _parse_phone(raw, "RU")
    ELSE IF _is_valid(_parse_phone(raw, Head(regions)))
        THEN _parse_phone(raw, Head(regions))
    ELSE IF Tail(regions) = <<>> THEN ""
    ELSE _parse_phone_with_regions_or_ru(raw, Tail(regions))

\* the first valid reading in the plans of the regions, in order
RECURSIVE _parse_phone_with_regions(_, _)
_parse_phone_with_regions(raw, regions) ==
    IF regions = <<>> THEN ""
    ELSE IF _is_valid(_parse_phone(raw, Head(regions)))
        THEN _parse_phone(raw, Head(regions))
    ELSE _parse_phone_with_regions(raw, Tail(regions))

\* the regions but the sentinel
RECURSIVE WithoutSentinel(_)
WithoutSentinel(regions) ==
    IF regions = <<>> THEN <<>>
    ELSE IF Head(regions) \in {"", "ZZ"} THEN WithoutSentinel(Tail(regions))
    ELSE <<Head(regions)>> \o WithoutSentinel(Tail(regions))

\* extract._normalize_regions; the regions of the universe are in capitals
_normalize_regions(regions) == Deduped(WithoutSentinel(regions))

\* extract_phones(page_text, regions, soup): page.phones are the numbers the
\* visible text shows, as written.  PhoneNumberMatcher(text, region) finds
\* those that read as valid numbers in the plan of the region, with region
\* ZZ those written with "+"; _IDD_CANDIDATE_RE finds those written with 00
\* or 011.
extract_phones(page, regions) ==
    LET effective_regions == _normalize_regions(regions)
        tel == { i \in 1..Len(page.hrefs) :
                   /\ Lower(page.hrefs[i].scheme) = "tel"
                   /\ _parse_tel(page.hrefs[i]) # "" }
        Read(i) == LET normalized == _normalize_idd_prefix(_parse_tel(page.hrefs[i]))
                   IN  IF startswith(normalized, "+")
                       THEN _parse_phone(normalized, "ZZ")
                       ELSE _parse_phone_with_regions(normalized, effective_regions)
    IN  { number \in
            { _parse_phone(m, effective_regions[k]) :
                m \in page.phones, k \in 1..Len(effective_regions) }
            \cup { _parse_phone(m, "ZZ") : m \in page.phones }
            \cup { _parse_phone(_normalize_idd_prefix(m), "ZZ") :
                     m \in { c \in page.phones :
                               startswith(c, "00") \/ startswith(c, "011") } }
            \cup { Read(i) : i \in tel } :
          _is_valid(number) }

\* ------------------------------------------------------------------ sites
\* A site with repeated links: "/contact" twice on the start page (once with
\* a fragment), "/a?x=1" and "/a" on /docs; a link to another host; a mailto.
\* /docs and /contact both lead to new pages.
SiteDup ==
    (Http("www.a.com", "/") :>
        Page(Http("www.a.com", "/"),
             << Rel("/docs", "", ""), Rel("/contact", "", ""),
                Rel("/contact", "", "top"), Http("b.ru", "/x"),
                MkUrl("mailto", "", 0, "root@a.com", "", "") >>,
             {"root@a.com"}, {"+78005553535"}))
    @@ (Http("www.a.com", "/contact") :>
        Page(Http("www.a.com", "/contact"),
             << Rel("/", "", ""), Rel("/a", "", "") >>,
             {"sales@a.com"}, {"+14155552671"}))
    @@ (Http("www.a.com", "/docs") :>
        Page(Http("www.a.com", "/docs"),
             << Rel("/a", "x=1", ""), Rel("/a", "", "") >>, {}, {}))
    @@ (Http("www.a.com", "/a") :>
        Page(Http("www.a.com", "/a"), <<>>, {"dev@a.com"}, {}))
    @@ (Http("b.ru", "/x") :>
        Page(Http("b.ru", "/x"), <<>>, {"evil@b.ru"}, {}))

\* A start page that redirects to another host, and a later page that does.
SiteRedirect ==
    (Http("a.com", "/") :>
        Page(MkUrl("http", "www.b.ru", 80, "", "", ""),
             << Rel("/x", "", ""), Http("a.com", "/y"),
                MkUrl("HTTPS", "B.RU", 443, "/z", "", ""),
                MkUrl("ftp", "b.ru", 0, "/file.pdf", "", "") >>,
             {"info@b.ru"}, {}))
    @@ (Http("www.b.ru", "/x") :>
        Page(Http("c.com", "/x"),
             << Rel("/w", "", ""), Http("www.b.ru", "/v") >>,
             {"other@c.com"}, {}))
    @@ (MkUrl("https", "b.ru", 0, "/z", "", "") :>
        Answer("raise", 0, "", Http("", ""), <<>>, {}, {}, FALSE))
    @@ (Http("www.b.ru", "/v") :>
        Answer("none", 200, Html, Http("www.b.ru", "/v"), <<>>, {}, {}, FALSE))
    @@ (Http("a.com", "/y") :>
        Page(Http("a.com", "/y"), <<>>, {"old@a.com"}, {}))

\* A site without repeated links, three levels deep, with failing pages.
SiteDeep ==
    (Http("a.com", "/") :>
        Page(Http("a.com", "/"),
             << Rel("/a", "", ""), Rel("/b", "", ""), Rel("/file.pdf", "", "") >>,
             {"root@a.com", "info@a.com"}, {}))
    @@ (Http("a.com", "/a") :>
        Page(Http("a.com", "/a"), << Rel("/c", "", ""), Rel("/a/b", "", "") >>,
             {"a@a.com", "root@a.com"}, {}))
    @@ (Http("a.com", "/a/b") :>
        Page(Http("a.com", "/a/b"), << Rel("/c", "", "") >>, {"root@a.com"}, {}))
    @@ (Http("a.com", "/b") :>
        Answer("request_error", 0, "", Http("", ""), <<>>, {}, {}, FALSE))
    @@ (Http("a.com", "/file.pdf") :>
        Answer("none", 200, "application/pdf", Http("a.com", "/file.pdf"),
               <<>>, {}, {}, TRUE))
    @@ (Http("a.com", "/c") :>
        Answer("none", 200, Html, MkUrl("ftp", "a.com", 0, "/c", "", ""),
               <<>>, {}, {}, TRUE))

\* A site in layers: two pages under the start page, a chain two deep under
\* the first of them, one page under the second.
SiteLayers ==
    (Http("a.com", "/") :>
        Page(Http("a.com", "/"), << Rel("/x", "", ""), Rel("/y", "", "") >>, {}, {}))
    @@ (Http("a.com", "/x") :>
        Page(Http("a.com", "/x"), << Rel("/z", "", "") >>, {}, {}))
    @@ (Http("a.com", "/z") :>
        Page(Http("a.com", "/z"), << Rel("/v", "", "") >>, {"deep@a.com"}, {}))
    @@ (Http("a.com", "/y") :>
        Page(Http("a.com", "/y"), << Rel("/w", "", "") >>, {}, {}))
    @@ (Http("a.com", "/v") :>
        Page(Http("a.com", "/v"), <<>>, {}, {}))
    @@ (Http("a.com", "/w") :>
        Page(Http("a.com", "/w"), <<>>, {}, {}))

\* the start_url given to parse, and the site it is served by
Scenarios ==
    { [start_url |-> MkUrl("HTTP", "WWW.A.COM", 80, "", "", "top"), site |-> SiteDup],
      [start_url |-> Http("a.com", "/"), site |-> SiteRedirect],
      [start_url |-> Http("a.com", ""), site |-> SiteDeep],
      \* "not-a-url": no scheme, no host
      [start_url |-> MkUrl("", "", 0, "not-a-url", "", ""), site |-> SiteDeep],
      \* "ftp://a.com/": a scheme that is neither http nor https
      [start_url |-> MkUrl("ftp", "a.com", 0, "/", "", ""), site |-> SiteDeep],
      \* "http:///a": no host
      [start_url |-> MkUrl("http", "", 0, "/a", "", ""), site |-> SiteDeep] }

\* A site of one page, for every answer the network can give to its GET:
\* every kind of error, statuses on both sides of 400, Content-Type values
\* missing, allowed (in either case, with parameters) and not allowed, and
\* final URLs that canonicalize or not.
Answers ==
    { Answer(error, status, ctype, url, <<>>, {"root@a.com"}, {}, TRUE) :
        error \in {"none", "request_error", "body_error", "raise"},
        status \in {200, 204, 399, 400, 404, 503},
        ctype \in {"", Html, "TEXT/HTML", "Text/Plain; Charset=UTF-8",
                   "application/xhtml+xml", "text/htmlx",
                   "application/pdf", "image/png"},
        url \in {Http("a.com", "/"), Http("c.com", "/x"),
                 MkUrl("ftp", "a.com", 0, "/", "", ""),
                 MkUrl("http", "", 0, "/", "", "")} }

ScenariosFetch ==
    { [start_url |-> Http("a.com", "/"), site |-> (Http("a.com", "/") :> answer)] :
        answer \in Answers }
    \cup { [start_url |-> MkUrl("", "", 0, "not-a-url", "", ""),
            site |-> SiteDeep] }

\* the settings the one-page site is fetched with
SettingsFetch ==
    [max_pages : {0, 1},
     max_depth : {0},
     max_concurrency : {1},
     max_links_per_page : {2},
     include_query : {FALSE},
     focused_crawling : {FALSE},
     max_body_bytes : {2000000},
     email_domain_allowlist : {<<>>},
     phone_regions : {<<>>}]

\* the chunks iter_content can yield: every sequence of at most MaxChunkLen
\* bytes, the empty chunk included
Chunks == UNION {[1..n -> {0, 1}] : n \in 0..MaxChunkLen}

\* the bodies: every sequence of at most MaxChunks chunks
Bodies == UNION {[1..n -> Chunks] : n \in 0..MaxChunks}

\* A site of one page, for every body
ScenariosBody ==
    { [start_url |-> Http("a.com", "/"),
       site |-> (Http("a.com", "/") :>
                   WithBody(Page(Http("a.com", "/"), <<>>, {}, {}), chunks))] :
        chunks \in Bodies }
    \cup { [start_url |-> MkUrl("", "", 0, "not-a-url", "", ""),
            site |-> SiteDeep] }

\* the settings the bodies are read with
SettingsBody ==
    [max_pages : {0, 1},
     max_depth : {0},
     max_concurrency : {1},
     max_links_per_page : {2},
     include_query : {FALSE},
     focused_crawling : {FALSE},
     max_body_bytes : 0..MaxBodyBound,
     email_domain_allowlist : {<<>>},
     phone_regions : {<<>>}]

\* the URLs parse is called with when canonicalisation is looked at: every
\* combination of these parts, the IPv6 literal [::1] among the hosts
Urls ==
    { MkUrl(scheme, host, port, path, query, frag) :
        scheme \in {"http", "HTTP", "https", "ftp", ""},
        host \in {"a.com", "WWW.A.COM", "[::1]", "::1", ""},
        port \in {0, 80, 443, 8080},
        path \in {"", "/", "/a"},
        query \in {"", "x=1"},
        frag \in {"", "top"} }

\* every such URL as the start of a crawl of a site of one page
ScenariosUrls ==
    { [start_url |-> url,
       site |-> (Http("a.com", "/") :>
                   Page(Http("a.com", "/"), <<>>, {"root@a.com"}, {}))] :
        url \in Urls }

\* the settings those crawls run with
SettingsUrls ==
    [max_pages : {0, 1},
     max_depth : {0},
     max_concurrency : {1},
     max_links_per_page : {2},
     include_query : BOOLEAN,
     focused_crawling : {FALSE},
     max_body_bytes : {2000000},
     email_domain_allowlist : {<<>>},
     phone_regions : {<<>>}]

\* what _EMAIL_RE finds in the text of the page with e-mails
TextCandidates ==
    {"good@gmail.com", "good@mail.ru", "nope@yahoo.com", "x@notmail.ru",
     "Up@Sub.Mail.RU", "a@mail.ru.com", "bad@.mail.ru"}

\* the mailto links of that page: none, one address, two addresses
MailtoLinks ==
    { <<>>,
      << MkUrl("mailto", "", 0, "admin@sub.mail.ru", "subject=hi", "") >>,
      << MkUrl("mailto", "", 0, "boss@mail.ru,other@gmail.com", "", "") >>,
      << MkUrl("mailto", "", 0, "Sales@GMAIL.com", "", ""),
         MkUrl("mailto", "", 0, " ", "", "") >> }

\* its inline scripts: none, or one that builds an address in two steps
CloakScripts ==
    { <<>>,
      << Script(TRUE,
           << Assign("", << Ident("document"), Literal("cloak1") >>),
              Assign("addy1", << Literal("&#105;nf&#111;"), Literal("&#64;") >>),
              Assign("addy1", << Ident("addy1"), Literal("m&#97;il"),
                                 Literal("&#46;"), Literal("r&#117;") >>) >>) >>,
      << Script(TRUE,
           << Assign("addy_text2", << Literal("info"), Literal("@"),
                                      Literal("hotmail.ru") >>) >>) >> }

\* A site of one page, for every such content with at most two candidates in
\* the text
ScenariosAllow ==
    { [start_url |-> Http("a.com", "/"),
       site |-> (Http("a.com", "/") :>
                   WithScripts(Page(Http("a.com", "/"), links, text, {}), scripts))] :
        text \in {t \in SUBSET TextCandidates : Cardinality(t) <= 2},
        links \in MailtoLinks,
        scripts \in CloakScripts }
    \cup { [start_url |-> MkUrl("", "", 0, "not-a-url", "", ""),
            site |-> SiteDeep] }

\* the settings that page is read with: no allowlist, or one of these
SettingsAllow ==
    [max_pages : {0, 1},
     max_depth : {0},
     max_concurrency : {1},
     max_links_per_page : {2},
     include_query : {FALSE},
     focused_crawling : {FALSE},
     max_body_bytes : {2000000},
     email_domain_allowlist :
        { <<>>, <<"mail.ru">>, <<"gmail.com", "mail.ru">>, <<"ru">>,
          <<"sub.mail.ru">>, <<"yahoo.com">> },
     phone_regions : {<<>>}]

\* the numbers the text of the page with phones shows, as written
TextNumbers ==
    {"8 (800) 555-35-35", "00 7 953 640-53-68", "+7 800 555-35-35",
     "011 44 20 8123 4567", "020 8123 4567", "+7 800"}

\* the tel links of that page: none, a local number, one written with 00,
\* one written with "+" and with a parameter
TelLinks ==
    { <<>>,
      << MkUrl("tel", "", 0, "02081234567", "", "") >>,
      << MkUrl("tel", "", 0, "00 1 415 555 2671", "", "") >>,
      << MkUrl("tel", "", 0, "+14155552671;ext=1", "", ""),
         MkUrl("tel", "", 0, "8 800 555 35 35", "", "") >> }

\* A site of one page for every such content with at most two numbers in the
\* text, served on a host with no region (a.com), on a host of RU (b.ru),
\* or on b.ru after a redirect from a.com
ScenariosPhones ==
    { [start_url |-> Http(from, "/"),
       site |-> (Http(from, "/") :> Page(Http(to, "/"), links, {}, text))] :
        from \in {"a.com", "b.ru"},
        to \in {"a.com", "b.ru"},
        text \in {t \in SUBSET TextNumbers : Cardinality(t) <= 2},
        links \in TelLinks }
    \cup { [start_url |-> MkUrl("", "", 0, "not-a-url", "", ""),
            site |-> SiteDeep] }

\* the settings that page is read with: no regions configured, or some
SettingsPhones ==
    [max_pages : {0, 1},
     max_depth : {0},
     max_concurrency : {1},
     max_links_per_page : {2},
     include_query : {FALSE},
     focused_crawling : {FALSE},
     max_body_bytes : {2000000},
     email_domain_allowlist : {<<>>},
     phone_regions : { <<>>, <<"GB">>, <<"ZZ">>, <<"GB", "RU">> }]

\* The inline scripts of the pages with cloaked addresses: the script of the
\* Joomla test; one that uses an identifier never assigned; one that assigns
\* an empty value between two uses; one in capitals, whose text has neither
\* "cloak" nor "addy"; two that share a name; one with no assignment.
JoomlaScript ==
    Script(TRUE,
      << Assign("", << Ident("document"), Ident("getElementById"),
                       Literal("cloak123"), Ident("innerHTML"), Literal("") >>),
         Assign("addy123", << Literal("&#105;nf&#111;"), Literal("&#64;") >>),
         Assign("addy123", << Ident("addy123"), Literal("k&#97;gr&#105;f&#111;n"),
                              Literal("&#46;"), Literal("r&#117;") >>),
         Assign("addy_text123", << Literal("&#105;nf&#111;"), Literal("&#64;"),
                                   Literal("mail"), Literal("&#46;"),
                                   Literal("r&#117;") >>) >>)

UnboundScript ==
    Script(TRUE,
      << Assign("addy2", << Ident("prefix"), Literal("boss@"), Ident("addy9"),
                            Literal("b.ru") >>) >>)

EmptyValueScript ==
    Script(TRUE,
      << Assign("addy3", << Literal("x") >>),
         Assign("addy3", << Literal("") >>),
         Assign("addy3", << Ident("addy3"), Literal("@mail.ru") >>),
         Assign("addy4", << Ident("addy5"), Literal("") >>),
         Assign("addy5", << Literal("late") >>) >>)

CapitalsScript ==
    Script(FALSE, << Assign("ADDY9", << Literal("up@mail.ru") >>) >>)

FirstHalfScript ==
    Script(TRUE, << Assign("addy9", << Literal("half@") >>) >>)

SecondHalfScript ==
    Script(TRUE,
      << Assign("addy8", << Ident("addy9"), Literal("mail.ru") >>),
         Assign("addy9", << Ident("addy9"), Literal("two@b.ru") >>) >>)

PlainScript ==
    Script(TRUE, << Assign("", << Ident("cloak"), Literal("no@b.ru") >>) >>)

Scripts == {JoomlaScript, UnboundScript, EmptyValueScript, CapitalsScript,
            FirstHalfScript, SecondHalfScript, PlainScript}

\* A site of one page, for every sequence of at most two of these scripts
ScenariosCloak ==
    { [start_url |-> Http("a.com", "/"),
       site |-> (Http("a.com", "/") :>
                   WithScripts(Page(Http("a.com", "/"), <<>>, {}, {}), scripts))] :
        scripts \in UNION {[1..n -> Scripts] : n \in 0..2} }
    \cup { [start_url |-> MkUrl("", "", 0, "not-a-url", "", ""),
            site |-> SiteDeep] }

\* the settings that page is read with
SettingsCloak ==
    [max_pages : {0, 1},
     max_depth : {0},
     max_concurrency : {1},
     max_links_per_page : {2},
     include_query : {FALSE},
     focused_crawling : {FALSE},
     max_body_bytes : {2000000},
     email_domain_allowlist : {<<>>},
     phone_regions : {<<>>}]

ScenariosLayers ==
    { [start_url |-> Http("a.com", "/"), site |-> SiteLayers],
      [start_url |-> MkUrl("", "", 0, "not-a-url", "", ""), site |-> SiteLayers] }

\* the settings the layered site is crawled with: budgets that let it reach
\* the third layer
SettingsLayers ==
    [max_pages : 0..MaxPagesLayers,
     max_depth : 0..MaxDepthLayers,
     max_concurrency : 1..MaxConcBound,
     max_links_per_page : {2},
     include_query : {FALSE},
     focused_crawling : BOOLEAN,
     max_body_bytes : {2000000},
     email_domain_allowlist : {<<>>},
     phone_regions : {<<>>}]

\* A start page whose first links are not followed: a mailto, a tel and a
\* javascript link stand among three links to pages of the site.
SiteLinks ==
    (Http("a.com", "/") :>
        Page(Http("a.com", "/"),
             << MkUrl("mailto", "", 0, "root@a.com", "", ""),
                MkUrl("tel", "", 0, "+78005553535", "", ""),
                Rel("/a", "", ""),
                MkUrl("javascript", "", 0, "void(0)", "", ""),
                Rel("/b", "", ""), Rel("/c", "", "") >>, {}, {}))
    @@ (Http("a.com", "/a") :>
        Page(Http("a.com", "/a"),
             << MkUrl("data", "", 0, "text/plain,x", "", ""), Rel("/d", "", "") >>,
             {}, {}))
    @@ (Http("a.com", "/b") :> Page(Http("a.com", "/b"), <<>>, {}, {}))
    @@ (Http("a.com", "/c") :> Page(Http("a.com", "/c"), <<>>, {}, {}))
    @@ (Http("a.com", "/d") :> Page(Http("a.com", "/d"), <<>>, {}, {}))

ScenariosLinks ==
    { [start_url |-> Http("a.com", "/"), site |-> SiteLinks],
      [start_url |-> MkUrl("", "", 0, "not-a-url", "", ""), site |-> SiteLinks] }

\* the settings the site is crawled with: cuts before, among and after the
\* links that are not followed
SettingsLinks ==
    [max_pages : 0..MaxPagesBound,
     max_depth : 0..MaxDepthBound,
     max_concurrency : 1..MaxConcBound,
     max_links_per_page : {1, 3, 5, 6},
     include_query : {FALSE},
     focused_crawling : BOOLEAN,
     max_body_bytes : {2000000},
     email_domain_allowlist : {<<>>},
     phone_regions : {<<>>}]

\* ParserSettings: the fields the engine reads
Settings ==
    [max_pages : 0..MaxPagesBound,
     max_depth : 0..MaxDepthBound,
     max_concurrency : 0..MaxConcBound,
     max_links_per_page : {2, 4},
     include_query : BOOLEAN,
     focused_crawling : BOOLEAN,
     max_body_bytes : {2000000},
     email_domain_allowlist : {<<>>},
     phone_regions : {<<>>}]

\* ------------------------------------------------------- settings loading
\* an environment variable: unset, or set to a text
Unset == [set |-> FALSE, text |-> ""]
Set(text) == [set |-> TRUE, text |-> text]

\* a key of the configuration file: absent, or present with a value
Absent(value) == [present |-> FALSE, value |-> value]
Present(value) == [present |-> TRUE, value |-> value]

\* a value that is a text or a list of texts
Text(text) == [kind |-> "str", text |-> text, items |-> <<>>]
List(items) == [kind |-> "list", text |-> "", items |-> items]

\* the defaults of the dataclass; <<>> stands for None
ParserSettings ==
    [max_pages |-> 200,
     include_query |-> FALSE,
     phone_regions |-> <<>>,
     email_domain_allowlist |-> <<>>,
     log_level |-> "INFO"]

\* ParserSettings.__dataclass_fields__
Fields == DOMAIN ParserSettings

\* an empty environment, an empty dictionary, and no call yet
NoEnviron ==
    [PARSER_CONFIG_FILE |-> Unset, PARSER_MAX_PAGES |-> Unset,
     PARSER_INCLUDE_QUERY |-> Unset, PARSER_PHONE_REGIONS |-> Unset,
     PARSER_PHONE_DEFAULT_REGION |-> Unset,
     PARSER_EMAIL_DOMAIN_ALLOWLIST |-> Unset, PARSER_LOG_LEVEL |-> Unset]

NoData ==
    [max_pages |-> Absent(0), include_query |-> Absent(FALSE),
     phone_regions |-> Absent(List(<<>>)),
     email_domain_allowlist |-> Absent(List(<<>>)),
     log_level |-> Absent(""), proxy |-> Absent("")]

NotLoaded == [outcome |-> "none", settings |-> ParserSettings]

\* int(text) for an unsigned decimal: the value, after str.strip
RECURSIVE DecimalValue(_)
DecimalValue(digits) ==
    IF digits = "" THEN 0
    ELSE 10 * DecimalValue(SubSeq(digits, 1, Len(digits) - 1))
           + (Ord(SubSeq(digits, Len(digits), Len(digits))) - Ord("0"))

\* int(text) raises ValueError unless the text is a decimal
int_raises(text) ==
    strip(text) = "" \/ DigitsOf(strip(text)) # strip(text)

int(text) == DecimalValue(strip(text))

\* str.upper() and str.lower() agree on what is no letter
UpperChar(c) ==
    LET upper == "ABCDEFGHIJKLMNOPQRSTUVWXYZ"
        lower == "abcdefghijklmnopqrstuvwxyz"
    IN  IF HasChar(lower, c)
        THEN LET i == CHOOSE k \in 1..Len(lower) : SubSeq(lower, k, k) = c
             IN  SubSeq(upper, i, i)
        ELSE c

RECURSIVE str_upper(_)
str_upper(s) == IF s = "" THEN "" ELSE UpperChar(Head(s)) \o str_upper(Tail(s))

\* lines 18-25
_coerce_bool_raises(text) ==
    str_lower(strip(text)) \notin {"1", "true", "yes", "y", "on",
                                   "0", "false", "no", "n", "off"}

_coerce_bool(text) == str_lower(strip(text)) \in {"1", "true", "yes", "y", "on"}

\* value.replace(";", ",").split(",")
RECURSIVE SplitList(_)
SplitList(text) ==
    IF HasChar(text, ",") \/ HasChar(text, ";")
    THEN LET cut == CHOOSE i \in 1..Len(text) :
                        /\ SubSeq(text, i, i) \in {",", ";"}
                        /\ \A j \in 1..(i - 1) : SubSeq(text, j, j) \notin {",", ";"}
         IN  <<SubSeq(text, 1, cut - 1)>> \o SplitList(SubSeq(text, cut + 1, Len(text)))
    ELSE <<text>>

\* the parts of a value that is a text or a list
Parts(value) == IF value.kind = "str" THEN SplitList(value.text) ELSE value.items

\* settings._normalize_regions, lines 121-144
_normalize_regions_of_settings(value) ==
    LET parts == Parts(value)
    IN  Deduped(NonEmpty([i \in 1..Len(parts) |-> str_upper(strip(parts[i]))]))

\* lines 147-170
_normalize_domain_suffixes(value) ==
    LET parts == Parts(value)
    IN  Deduped(NonEmpty([i \in 1..Len(parts) |->
            lstrip(lstrip(str_lower(strip(parts[i])), "@"), ".")]))

\* lines 28-42: parser.toml is there and holds config_data, gone.toml is not
\* there, parser.ini is there
_read_config_file_raises(path) ==
    CASE path = "gone.toml" -> "FileNotFoundError"
      [] path = "parser.ini" -> "ValueError"
      [] OTHER -> "none"

\* lines 87-118: the dictionary read from the environment, or ValueError
_read_settings_from_env_raises(env) ==
    \/ env.PARSER_MAX_PAGES.set /\ env.PARSER_MAX_PAGES.text # ""
          /\ int_raises(env.PARSER_MAX_PAGES.text)
    \/ env.PARSER_INCLUDE_QUERY.set /\ env.PARSER_INCLUDE_QUERY.text # ""
          /\ _coerce_bool_raises(env.PARSER_INCLUDE_QUERY.text)

_read_settings_from_env(env) ==
    LET Given(raw) == raw.set /\ raw.text # ""
        regions == IF Given(env.PARSER_PHONE_REGIONS)
                   THEN Present(Text(env.PARSER_PHONE_REGIONS.text))
                   ELSE IF Given(env.PARSER_PHONE_DEFAULT_REGION)
                   THEN Present(Text(env.PARSER_PHONE_DEFAULT_REGION.text))
                   ELSE Absent(List(<<>>))
    IN  [max_pages |-> IF Given(env.PARSER_MAX_PAGES)
                       THEN Present(int(env.PARSER_MAX_PAGES.text)) ELSE Absent(0),
         include_query |-> IF Given(env.PARSER_INCLUDE_QUERY)
                           THEN Present(_coerce_bool(env.PARSER_INCLUDE_QUERY.text))
                           ELSE Absent(FALSE),
         phone_regions |-> regions,
         email_domain_allowlist |->
             IF Given(env.PARSER_EMAIL_DOMAIN_ALLOWLIST)
             THEN Present(Text(env.PARSER_EMAIL_DOMAIN_ALLOWLIST.text))
             ELSE Absent(List(<<>>)),
         log_level |-> IF Given(env.PARSER_LOG_LEVEL)
                       THEN Present(env.PARSER_LOG_LEVEL.text) ELSE Absent("")]

\* dict.update: the keys of `other` replace those of `data`
update(data, other) ==
    [key \in DOMAIN data |->
        IF key \in DOMAIN other /\ other[key].present THEN other[key] ELSE data[key]]

\* lines 81-84
_filter_known_fields(data) == [key \in DOMAIN data \cap Fields |-> data[key]]

\* cls(**kwargs): a field that is not given has its default
cls(kwargs) ==
    [field \in Fields |->
        IF field \in DOMAIN kwargs /\ kwargs[field].present
        THEN kwargs[field].value ELSE ParserSettings[field]]

\* a loading in which the file is laid over the environment
from_env_and_file_file_on_top(path, env, file) ==
    LET given == IF path # "" THEN path
                 ELSE IF env.PARSER_CONFIG_FILE.set THEN env.PARSER_CONFIG_FILE.text
                 ELSE ""
        first == IF given # "" THEN update(NoData, file) ELSE NoData
        data == update(update(NoData, _read_settings_from_env(env)), first)
        regions == IF data.phone_regions.present
                   THEN Present(_normalize_regions_of_settings(data.phone_regions.value))
                   ELSE data.phone_regions
        suffixes == IF data.email_domain_allowlist.present
                    THEN Present(_normalize_domain_suffixes(data.email_domain_allowlist.value))
                    ELSE data.email_domain_allowlist
        normalized == [data EXCEPT !.phone_regions = regions,
                                   !.email_domain_allowlist = suffixes]
    IN  IF given # "" /\ _read_config_file_raises(given) # "none"
        THEN [outcome |-> _read_config_file_raises(given), settings |-> ParserSettings]
        ELSE IF _read_settings_from_env_raises(env)
        THEN [outcome |-> "ValueError", settings |-> ParserSettings]
        ELSE [outcome |-> "settings", settings |-> cls(_filter_known_fields(normalized))]

\* lines 64-78; `file` is what parser.toml holds
from_env_and_file(path, env, file) ==
    LET given == IF path # "" THEN path
                 ELSE IF env.PARSER_CONFIG_FILE.set THEN env.PARSER_CONFIG_FILE.text
                 ELSE ""
        first == IF given # "" THEN update(NoData, file) ELSE NoData
        data == update(first, _read_settings_from_env(env))
        regions == IF data.phone_regions.present
                   THEN Present(_normalize_regions_of_settings(data.phone_regions.value))
                   ELSE data.phone_regions
        suffixes == IF data.email_domain_allowlist.present
                    THEN Present(_normalize_domain_suffixes(data.email_domain_allowlist.value))
                    ELSE data.email_domain_allowlist
        normalized == [data EXCEPT !.phone_regions = regions,
                                   !.email_domain_allowlist = suffixes]
    IN  IF given # "" /\ _read_config_file_raises(given) # "none"
        THEN [outcome |-> _read_config_file_raises(given), settings |-> ParserSettings]
        ELSE IF _read_settings_from_env_raises(env)
        THEN [outcome |-> "ValueError", settings |-> ParserSettings]
        ELSE [outcome |-> "settings", settings |-> cls(_filter_known_fields(normalized))]

\* the environments, arguments and files of the loading
Environs ==
    [PARSER_CONFIG_FILE : {Unset, Set("parser.toml")},
     PARSER_MAX_PAGES : {Unset, Set(""), Set(" 17 "), Set("many")},
     PARSER_INCLUDE_QUERY : {Unset, Set("Yes"), Set("maybe")},
     PARSER_PHONE_REGIONS : {Unset, Set(""), Set("gb; ru,GB"), Set(" , ")},
     PARSER_PHONE_DEFAULT_REGION : {Unset, Set("us")},
     PARSER_EMAIL_DOMAIN_ALLOWLIST : {Unset, Set("@Mail.RU, .b.ru")},
     PARSER_LOG_LEVEL : {Unset, Set("debug")}]

ConfigPaths == {"", "parser.toml", "gone.toml", "parser.ini"}

ConfigDatas ==
    [max_pages : {Absent(0), Present(1)},
     include_query : {Absent(FALSE), Present(TRUE)},
     phone_regions : {Absent(List(<<>>)), Present(List(<<"ru", "RU ">>))},
     email_domain_allowlist : {Absent(List(<<>>)), Present(Text("Gmail.com;b.ru"))},
     log_level : {Absent("")},
     proxy : {Absent(""), Present("http://proxy")}]

\* ----------------------------------------------------------- the web API
\* a JSON value of the overrides
Null == [type |-> "null", number |-> 0, text |-> "", flag |-> FALSE]
Number(n) == [type |-> "number", number |-> n, text |-> "", flag |-> FALSE]
String(text) == [type |-> "string", number |-> 0, text |-> text, flag |-> FALSE]
Bool(flag) == [type |-> "bool", number |-> 0, text |-> "", flag |-> flag]

\* the outcome of a caster: a value, or the exception it raises
Returns(value) == [raises |-> "none", value |-> value]
Raises(exception, value) == [raises |-> exception, value |-> value]

\* lines 54-60: int(value), then the range
_coerce_int(value, min_value, max_value) ==
    LET number == CASE value.type = "number" -> value.number
                    [] value.type = "bool" -> IF value.flag THEN 1 ELSE 0
                    [] OTHER -> int(value.text)
    IN  IF value.type = "null" THEN Raises("TypeError", 0)
        ELSE IF value.type = "string" /\ int_raises(value.text)
        THEN Raises("ValueError", 0)
        ELSE IF number < min_value \/ number > max_value
        THEN Raises("ValueError", 0)
        ELSE Returns(number)

\* lines 30-42; str(0) and str(1) are the numbers that read as booleans
_coerce_bool_of_web(value) ==
    LET text == IF value.type = "number"
                THEN (IF value.number = 0 THEN "0"
                      ELSE IF value.number = 1 THEN "1" ELSE "number")
                ELSE value.text
    IN  IF value.type = "bool" THEN Returns(value.flag)
        ELSE IF value.type = "null" THEN Raises("ValueError", FALSE)
        ELSE IF _coerce_bool_raises(text) THEN Raises("ValueError", FALSE)
        ELSE Returns(_coerce_bool(text))

\* lines 113-119; str() of what is no text is no level
_coerce_log_level(value) ==
    LET level == str_upper(strip(value.text))
    IN  IF value.type = "string"
           /\ level \in {"DEBUG", "INFO", "WARNING", "ERROR", "CRITICAL"}
        THEN Returns(level)
        ELSE Raises("ValueError", "")

\* lines 133-154
OverrideKeys == {"max_pages", "include_query", "log_level"}

_OVERRIDE_CASTERS(key, value) ==
    CASE key = "max_pages" -> _coerce_int(value, 1, 5000)
      [] key = "include_query" -> _coerce_bool_of_web(value)
      [] key = "log_level" -> _coerce_log_level(value)

\* no overrides: None
NoOverrides == [given |-> FALSE, items |-> <<>>]
Overrides(items) == [given |-> TRUE, items |-> items]

\* lines 165-171: the loop over overrides.items(), in the order of the
\* dictionary, then replace(settings, **normalized)
RECURSIVE ApplyItems(_, _)
ApplyItems(settings_, items) ==
    IF items = <<>> THEN [raises |-> "none", settings |-> settings_]
    ELSE LET key == Head(items).key
             value == Head(items).value
         IN  IF key \notin OverrideKeys
             THEN [raises |-> "ValueError", settings |-> settings_]
             ELSE LET cast == _OVERRIDE_CASTERS(key, value)
                  IN  IF cast.raises # "none"
                      THEN [raises |-> cast.raises, settings |-> settings_]
                      ELSE ApplyItems([settings_ EXCEPT ![key] = cast.value],
                                      Tail(items))

\* lines 157-171
_apply_overrides(settings_, overrides) ==
    IF ~overrides.given THEN [raises |-> "none", settings |-> settings_]
    ELSE LET applied == ApplyItems(settings_, overrides.items)
         IN  IF applied.raises # "none"
             THEN [raises |-> applied.raises, settings |-> settings_]
             ELSE applied

\* parse_site(start_url, settings=settings) raises ValueError on a start URL
\* that is no http(s) URL with a host
parse_site_raises(url) == url = "not-a-url"

NotApplied == [raises |-> "not called", settings |-> ParserSettings]

NoPayload == [url |-> "", config |-> "", overrides |-> NoOverrides]
NoResponse == [status |-> 0, called |-> FALSE, applied |-> NotApplied]

\* lines 212-229: the answer to a request
parse_endpoint(request, env, file) ==
    LET start == strip(request.url)
        base == from_env_and_file(request.config, env, file)
        applied == _apply_overrides(base.settings, request.overrides)
    IN  IF start = ""
        THEN [status |-> 422, called |-> FALSE, applied |-> NotApplied]
        ELSE IF base.outcome # "settings"
        THEN [status |-> 400, called |-> FALSE, applied |-> NotApplied]
        ELSE IF applied.raises = "ValueError"
        THEN [status |-> 400, called |-> FALSE, applied |-> applied]
        ELSE IF applied.raises # "none"
        THEN [status |-> 500, called |-> FALSE, applied |-> applied]
        ELSE IF parse_site_raises(start)
        THEN [status |-> 400, called |-> TRUE, applied |-> applied]
        ELSE [status |-> 200, called |-> TRUE, applied |-> applied]

\* the requests: at most two overrides, in either order
OverrideItems ==
    [key : {"max_pages"},
     value : {Null, Number(0), Number(7), Number(5001), String(" 17 "),
              String("many"), Bool(TRUE)}]
    \cup [key : {"include_query"}, value : {Bool(TRUE), String("Yes"), Null, Number(1)}]
    \cup [key : {"log_level"}, value : {String("debug"), String("loud")}]
    \cup [key : {"bogus"}, value : {Number(1)}]

Payloads ==
    [url : {"", " ", " http://a.com/ ", "not-a-url"},
     config : {"", "parser.toml", "gone.toml"},
     overrides : {NoOverrides}
        \cup { Overrides(items) :
                 items \in { list \in UNION {[1..n -> OverrideItems] : n \in 0..2} :
                               \A i, j \in DOMAIN list :
                                   list[i].key = list[j].key => i = j } }]

\* ------------------------------------------------------------ safe logging
\* a value of a mapping: its kind and str(value)
Value(kind, text) == [kind |-> kind, text |-> text]

\* lines 6-15
_SENSITIVE_KEY_MARKERS ==
    <<"token", "secret", "password", "api_key", "apikey", "cookie",
      "authorization", "proxy">>

\* `marker in key`
HasPart(text, part) ==
    \E i \in 1..(Len(text) - Len(part) + 1) :
        SubSeq(text, i, i + Len(part) - 1) = part

\* lines 40-41
_is_sensitive_key(key) ==
    \E i \in 1..Len(_SENSITIVE_KEY_MARKERS) : HasPart(key, _SENSITIVE_KEY_MARKERS[i])

\* a mask that shows four characters at the front
_mask_value_four_shown(value) ==
    LET text == strip(value.text)
    IN  IF value.kind = "none" \/ text = "" \/ Len(text) <= 6 THEN Value("str", "***")
        ELSE Value("str", SubSeq(text, 1, 4) \o "***" \o SubSeq(text, Len(text) - 1, Len(text)))

\* lines 44-52
_mask_value(value) ==
    LET text == strip(value.text)
    IN  IF value.kind = "none" \/ text = "" \/ Len(text) <= 6 THEN Value("str", "***")
        ELSE Value("str", SubSeq(text, 1, 3) \o "***" \o SubSeq(text, Len(text) - 1, Len(text)))

\* lines 29-37; a value under another key is a scalar or a list of scalars,
\* which sanitize_for_log gives back as it is (lines 24-26)
_sanitize_mapping(data) ==
    [key \in DOMAIN data |->
        IF _is_sensitive_key(str_lower(strip(key))) THEN _mask_value(data[key])
        ELSE data[key]]

\* lines 18-23, for a mapping or the asdict() of a dataclass
sanitize_for_log(value) == _sanitize_mapping(value)

\* the mappings that are logged
LogKeys == {"Auth_Token", "max_pages", "proxy"}

LogValues ==
    {Value("none", "None"), Value("int", "20"),
     Value("str", "abcXYZde"), Value("str", "abcQQQde"),
     Value("str", "   abcXYde"), Value("str", "   xyzXYde"),
     Value("list", "['tok', 'en']")}

Mappings == UNION {[keys -> LogValues] : keys \in SUBSET LogKeys}

NoMapping == [key \in {} |-> Value("none", "None")]

\* ------------------------------------------------------------- live logs
\* the threads that use the buffer, the calls they make in all, the largest
\* max_records
Threads == 1..3
MaxCalls == 5
MaxRecords == 2

\* lines 32-36; lock = 0: nobody holds the lock
InMemoryLogBuffer(max_records) ==
    [max_records |-> max_records, _records |-> <<>>, _next_id |-> 1, _lock |-> 0]

\* a deque that keeps every entry
deque_append_unbounded(records, entry, maxlen) == Append(records, entry)

\* deque(maxlen).append: at the right; a full deque drops its leftmost
deque_append(records, entry, maxlen) ==
    IF maxlen = 0 THEN <<>>
    ELSE IF Len(records) >= maxlen
    THEN Append(SubSeq(records, Len(records) - maxlen + 2, Len(records)), entry)
    ELSE Append(records, entry)

\* a thread outside the buffer; `items` is what its last list() returned,
\* `after_clear` whether it called list() after a clear() had returned with
\* nothing appended since that clear, `after` the argument of its list(),
\* `seen` the highest id its lists have shown it, and `seen_at` how many
\* entries had been appended when its last list() read the buffer
Idle == [pc |-> "idle", items |-> <<>>, after_clear |-> FALSE, listed |-> FALSE,
         after |-> 0, seen |-> 0, seen_at |-> 0]

\* `all`: the ids appended since the last clearing; `ever`: the ids of all
\* entries appended, in the order of their appending
NothingEmitted == [all |-> <<>>, calls |-> 0, cleared |-> FALSE, ever |-> <<>>]

\* the largest of the ids of a list, or `least` if that is larger
RECURSIVE Highest(_, _)
Highest(ids, least) ==
    IF ids = <<>> THEN least
    ELSE Highest(Tail(ids), IF Head(ids) > least THEN Head(ids) ELSE least)

\* line 61: the entries with an id above `after`, in the order of the deque
RECURSIVE EntriesAfter(_, _)
EntriesAfter(records, after) ==
    IF records = <<>> THEN <<>>
    ELSE IF Head(records) > after
        THEN <<Head(records)>> \o EntriesAfter(Tail(records), after)
    ELSE EntriesAfter(Tail(records), after)

\* ---------------------------------------------------------- HTTP sessions
\* the threads of the pool that run fetch, and the fetches each one makes
Workers == 1..3
MaxFetches == 3

\* None, where a session is expected
NoSession == 0

\* HttpClient(settings, session): _session is the session given, if any, and
\* _local is a threading.local(), one slot for each thread
HttpClient(session) ==
    [session |-> session, local |-> [thread \in Workers |-> NoSession]]

\* lines 93-105: a new Session object, with an adapter that retries mounted
\* for both schemes
_create_session(objects) ==
    [id |-> Cardinality(objects) + 1, mounts |-> {"http://", "https://"}]

\* a client that keeps the session it creates in one slot for all threads
_get_session_one_slot(self, objects, thread) ==
    IF self.session # NoSession
    THEN [self |-> self, objects |-> objects, session |-> self.session]
    ELSE IF \E other \in Workers : self.local[other] # NoSession
    THEN [self |-> self, objects |-> objects,
          session |-> self.local[CHOOSE other \in Workers :
                                    self.local[other] # NoSession]]
    ELSE LET session == _create_session(objects)
         IN  [self |-> [self EXCEPT !.local[thread] = session.id],
              objects |-> objects \cup {session},
              session |-> session.id]

\* lines 83-90, called by `thread`: the client and the Session objects that
\* exist after the call, and the session the call returns
_get_session(self, objects, thread) ==
    IF self.session # NoSession
    THEN [self |-> self, objects |-> objects, session |-> self.session]
    ELSE IF self.local[thread] # NoSession
    THEN [self |-> self, objects |-> objects, session |-> self.local[thread]]
    ELSE LET session == _create_session(objects)
         IN  [self |-> [self EXCEPT !.local[thread] = session.id],
              objects |-> objects \cup {session},
              session |-> session.id]

\* ------------------------------------------------------------------ state
VARIABLES
    settings,           \* self._settings
    site,               \* what the network serves
    start_url,          \* the argument of parse
    pc,                 \* where the orchestrating thread is
    expired,            \* time.monotonic() > deadline
    normalized_start,
    base_hostname,
    effective_start,
    phone_regions,      \* the regions phones are read in
    discovered,
    frontier,           \* the heap: a set of (priority, depth, sequence, url)
    sequence,           \* the next value of count()
    in_flight,          \* future -> (url, depth): a set of [id, url, depth]
    done,               \* the futures wait() returned, not yet handled
    scheduled,
    fetched_ok,
    fetched_failed,
    processed_pages,
    skipped_soup_parse,
    links_examined,
    links_enqueued,
    max_depth_reached,
    failure_reasons,
    stop_reason,
    emails,
    phones,
    pushed,             \* history: every item ever put in the frontier
    dispatched,         \* history: every future ever submitted
    handled,            \* history: every future whose outcome was handled
    previous,           \* what an earlier call of parse returned, if any
    result,             \* the ParseResult, once parse has returned
    environ,            \* os.environ
    config_path,        \* the argument of from_env_and_file
    config_data,        \* what the file parser.toml holds
    loaded,             \* what from_env_and_file returned or raised
    payload,            \* the ParseRequest of POST /api/parse
    response,           \* what parse_endpoint answered
    logged,             \* a value given to sanitize_for_log, and what came back
    buffer,             \* the InMemoryLogBuffer: _records, _next_id, _lock
    threads,            \* where each thread that uses the buffer is
    emitted,            \* history: what was appended, and whether since a clear
    http_client,        \* the HttpClient: _session, _local
    sessions,           \* the requests.Session objects that exist
    session_uses        \* history: which thread's fetch used which session

\* the process around the engine: the loading of its settings
loadVars == <<environ, config_path, config_data, loaded>>
webVars == <<payload, response>>
bufferVars == <<buffer, threads, emitted>>
sessionVars == <<http_client, sessions, session_uses>>
hostVars == <<loadVars, webVars, logged, bufferVars, sessionVars>>
\* the engine's own variables
engineVars == <<settings, site, start_url, previous, result, normalized_start,
                discovered, frontier, sequence, links_enqueued, pushed,
                links_examined, base_hostname, effective_start, phone_regions,
                in_flight, scheduled, dispatched, fetched_ok, fetched_failed,
                processed_pages, skipped_soup_parse, max_depth_reached,
                failure_reasons, handled, emails, phones, pc, expired, done,
                stop_reason>>

\* what the caller holds: the configuration, the site, the argument, the
\* result of an earlier call, and the process around the engine
configVars == <<settings, site, start_url, previous, hostVars>>
startVars == <<normalized_start>>
crawlVars == <<discovered, frontier, sequence, links_enqueued, pushed, links_examined>>
baseVars == <<base_hostname, effective_start, phone_regions>>
flightVars == <<in_flight, scheduled, dispatched>>
tallyVars == <<fetched_ok, fetched_failed, processed_pages, skipped_soup_parse,
             max_depth_reached, failure_reasons, handled>>
contactVars == <<emails, phones>>
\* what parse returns
returnVars == <<result>>
vars == <<configVars, returnVars, startVars, crawlVars, baseVars, flightVars, tallyVars, contactVars, pc, expired,
          done, stop_reason>>

NoUrl == Http("", "")

\* no earlier call
NoResult == [called |-> FALSE, emails |-> {}, phones |-> {},
             stop_reason |-> "", expired |-> FALSE]

\* parse has not returned
NotReturned == [returned |-> FALSE, url |-> origin(NoUrl), emails |-> <<>>,
                phones |-> <<>>]

\* the state when parse is called with one of the given settings and scenarios
InitEngine(someSettings, someScenarios) ==
    /\ settings \in someSettings
    /\ \E sc \in someScenarios : site = sc.site /\ start_url = sc.start_url
    /\ pc = "start"
    /\ expired = FALSE
    /\ normalized_start = NoUrl
    /\ base_hostname = ""
    /\ effective_start = NoUrl
    /\ phone_regions = <<>>
    /\ discovered = {}
    /\ frontier = {}
    /\ sequence = 0
    /\ in_flight = {}
    /\ done = {}
    /\ scheduled = 0
    /\ fetched_ok = 0
    /\ fetched_failed = 0
    /\ processed_pages = 0
    /\ skipped_soup_parse = 0
    /\ links_examined = 0
    /\ links_enqueued = 0
    /\ max_depth_reached = 0
    /\ failure_reasons = [r \in Reasons |-> 0]
    /\ stop_reason = "completed"
    /\ emails = {}
    /\ phones = {}
    /\ pushed = {}
    /\ dispatched = {}
    /\ handled = {}
    /\ previous = NoResult
    /\ result = NotReturned

\* nothing loaded
LoadIdle ==
    /\ environ = NoEnviron
    /\ config_path = ""
    /\ config_data = NoData
    /\ loaded = NotLoaded

\* no request
WebIdle ==
    /\ payload = NoPayload
    /\ response = NoResponse

\* nothing logged
LogIdle == logged = [value |-> NoMapping, sanitized |-> NoMapping, returned |-> FALSE]

\* a buffer nobody uses
BufferIdle ==
    /\ buffer = InMemoryLogBuffer(MaxRecords)
    /\ threads = [t \in Threads |-> Idle]
    /\ emitted = NothingEmitted

\* a client nobody fetches with
SessionIdle ==
    /\ http_client = HttpClient(NoSession)
    /\ sessions = {}
    /\ session_uses = {}

HostIdle == LoadIdle /\ WebIdle /\ LogIdle /\ BufferIdle /\ SessionIdle

InitWith(someSettings, someScenarios) ==
    InitEngine(someSettings, someScenarios) /\ HostIdle

Init == InitWith(Settings, Scenarios)

InitLayers == InitWith(SettingsLayers, ScenariosLayers)

InitFetch == InitWith(SettingsFetch, ScenariosFetch)

InitBody == InitWith(SettingsBody, ScenariosBody)

InitUrls == InitWith(SettingsUrls, ScenariosUrls)

InitAllow == InitWith(SettingsAllow, ScenariosAllow)

InitPhones == InitWith(SettingsPhones, ScenariosPhones)

InitCloak == InitWith(SettingsCloak, ScenariosCloak)

InitLinks == InitWith(SettingsLinks, ScenariosLinks)

\* --------------------------------------------------------------- frontier
_priority(url) ==
    IF ~settings.focused_crawling THEN 0 ELSE url_priority_score(url)

Item(url, depth, seq) ==
    [priority |-> _priority(url), depth |-> depth, sequence |-> seq, url |-> url]

\* a tuple order that, depth and priority being equal, puts the newest first
ItemLessNewestFirst(x, y) ==
    \/ x.priority < y.priority
    \/ x.priority = y.priority /\ x.depth < y.depth
    \/ x.priority = y.priority /\ x.depth = y.depth /\ x.sequence > y.sequence

\* tuple order of (priority, depth, sequence, url); sequence numbers differ
ItemLess(x, y) ==
    \/ x.priority < y.priority
    \/ x.priority = y.priority /\ x.depth < y.depth
    \/ x.priority = y.priority /\ x.depth = y.depth /\ x.sequence < y.sequence

\* the item heappop returns
heappop(heap) == CHOOSE x \in heap : \A y \in heap \ {x} : ItemLess(x, y)

\* the pool as wide as the setting says, were it zero
max_concurrency_as_given == settings.max_concurrency

max_concurrency == Max(1, settings.max_concurrency)

\* ------------------------------------------------------ lines 53-87: seed
\* lines 59-66: no regions are configured, <<>> standing for None too
inferred_regions == settings.phone_regions = <<>>

\* lines 57-58: normalize_url returns, and hostname_key finds a hostname in
\* what it returned
StartAccepted ==
    /\ normalize_ok(start_url)
    /\ \E ns \in {normalize_url(start_url, settings.include_query)} :
          hostname(ns) # ""

ParseRaises ==
    /\ pc = "start"
    /\ ~StartAccepted
    /\ pc' = "error"
    /\ UNCHANGED <<configVars, returnVars, startVars, crawlVars, baseVars, flightVars, tallyVars, contactVars,
                   expired, done, stop_reason>>

ParseStart ==
    /\ pc = "start"
    /\ StartAccepted
    /\ \E ns \in {normalize_url(start_url, settings.include_query)} :
           /\ normalized_start' = ns
           /\ base_hostname' = hostname_key(ns)
           /\ discovered' = {ns}
           /\ frontier' = {Item(ns, 0, 0)}
           /\ pushed' = {Item(ns, 0, 0)}
           /\ sequence' = 1
           /\ effective_start' = ns
           /\ phone_regions' = IF inferred_regions THEN InferredRegions(ns)
                              ELSE WithoutSentinel(settings.phone_regions)
    /\ pc' = "top"
    /\ UNCHANGED <<configVars, returnVars, links_enqueued, links_examined, flightVars, tallyVars,
                   contactVars, expired, done, stop_reason>>

\* the clock passes the deadline; it may do so between any two steps
Tick ==
    /\ pc \in {"top", "refill", "wait", "process"}
    /\ ~expired
    /\ expired' = TRUE
    /\ UNCHANGED <<configVars, returnVars, startVars, crawlVars, baseVars, flightVars, tallyVars, contactVars, pc,
                   done, stop_reason>>

\* the clock passes the deadline while the thread waits or handles a page
TickAtWork ==
    /\ pc \in {"wait", "process"}
    /\ Tick

\* --------------------------------------- lines 90-94: loop test, deadline
LoopExit ==
    /\ pc = "top"
    /\ frontier = {} /\ in_flight = {}
    /\ pc' = "finish"
    /\ UNCHANGED <<configVars, returnVars, startVars, crawlVars, baseVars, flightVars, tallyVars, contactVars,
                   expired, done, stop_reason>>

DeadlineStop ==
    /\ pc = "top"
    /\ frontier # {} \/ in_flight # {}
    /\ expired
    /\ stop_reason' = "max_seconds"
    /\ pc' = "finish"
    /\ UNCHANGED <<configVars, returnVars, startVars, crawlVars, baseVars, flightVars, tallyVars, contactVars,
                   expired, done>>

LoopEnter ==
    /\ pc = "top"
    /\ frontier # {} \/ in_flight # {}
    /\ ~expired
    /\ pc' = "refill"
    /\ UNCHANGED <<configVars, returnVars, startVars, crawlVars, baseVars, flightVars, tallyVars, contactVars,
                   expired, done, stop_reason>>

\* ------------------------------------------------- lines 96-100: refill
\* a refill that ignores the page budget
RefillGuardNoPageBudget ==
    /\ frontier # {}
    /\ Cardinality(in_flight) < max_concurrency

\* a refill that ignores the width of the pool
RefillGuardNoWidth ==
    /\ frontier # {}
    /\ scheduled < settings.max_pages

RefillGuard ==
    /\ frontier # {}
    /\ Cardinality(in_flight) < max_concurrency
    /\ scheduled < settings.max_pages

Dispatch ==
    /\ pc = "refill"
    /\ RefillGuard
    /\ LET item == heappop(frontier)
           future == [id |-> scheduled, url |-> item.url, depth |-> item.depth]
       IN  /\ frontier' = frontier \ {item}
           /\ in_flight' = in_flight \cup {future}
           /\ dispatched' = dispatched \cup {future}
    /\ scheduled' = scheduled + 1
    /\ UNCHANGED <<configVars, returnVars, startVars, discovered, sequence, links_enqueued, pushed,
                   links_examined, baseVars, tallyVars, contactVars, pc, expired, done,
                   stop_reason>>

\* the loop going round again, instead of leaving, with nothing in flight
NothingInFlightContinues ==
    /\ pc = "refill"
    /\ ~RefillGuard
    /\ in_flight = {}
    /\ stop_reason' = IF frontier # {} /\ scheduled >= settings.max_pages
                      THEN "max_pages" ELSE stop_reason
    /\ pc' = "top"
    /\ UNCHANGED <<configVars, returnVars, startVars, crawlVars, baseVars, flightVars, tallyVars, contactVars,
                   expired, done>>

\* lines 102-105: nothing in flight after the refill
NothingInFlight ==
    /\ pc = "refill"
    /\ ~RefillGuard
    /\ in_flight = {}
    /\ stop_reason' = IF frontier # {} /\ scheduled >= settings.max_pages
                      THEN "max_pages" ELSE stop_reason
    /\ pc' = "finish"
    /\ UNCHANGED <<configVars, returnVars, startVars, crawlVars, baseVars, flightVars, tallyVars, contactVars,
                   expired, done>>

RefillEnd ==
    /\ pc = "refill"
    /\ ~RefillGuard
    /\ in_flight # {}
    /\ pc' = "wait"
    /\ UNCHANGED <<configVars, returnVars, startVars, crawlVars, baseVars, flightVars, tallyVars, contactVars,
                   expired, done, stop_reason>>

\* --------------------------------------------------- lines 107-111: wait
\* wait(FIRST_COMPLETED) returns the futures that have completed: any
\* non-empty set of those in flightVars, in whatever order the workers finish
WaitDone ==
    /\ pc = "wait"
    /\ \E d \in (SUBSET in_flight) \ {{}} : done' = d
    /\ pc' = "process"
    /\ UNCHANGED <<configVars, returnVars, startVars, crawlVars, baseVars, flightVars, tallyVars, contactVars,
                   expired, stop_reason>>

\* the timeout max(0, deadline - now) ran out with no future completed
WaitTimeout ==
    /\ pc = "wait"
    /\ expired
    /\ stop_reason' = "max_seconds"
    /\ pc' = "finish"
    /\ UNCHANGED <<configVars, returnVars, startVars, crawlVars, baseVars, flightVars, tallyVars, contactVars,
                   expired, done>>

\* ------------------------------------------- lines 150-164: candidates
\* the same-domain, not yet discovered links of a page, in document order;
\* `seen` is the discovered set as it is when the page is handled
RECURSIVE Candidates(_, _, _, _)
Candidates(hrefs, final_url, base_key, seen) ==
    IF hrefs = <<>> THEN <<>>
    ELSE LET href == Head(hrefs)
             absolute == urljoin(final_url, href)
             normalized == normalize_url(absolute, settings.include_query)
             rest == Candidates(Tail(hrefs), final_url, base_key, seen)
         IN  IF ~is_probably_parseable_href(href) THEN rest
             ELSE IF ~normalize_ok(absolute) THEN rest
             ELSE IF ~is_same_domain(normalized, base_key) THEN rest
             ELSE IF normalized \in seen THEN rest
             ELSE <<normalized>> \o rest

\* the hrefs that pass line 153
RECURSIVE Parseable(_)
Parseable(hrefs) ==
    IF hrefs = <<>> THEN <<>>
    ELSE IF is_probably_parseable_href(Head(hrefs))
        THEN <<Head(hrefs)>> \o Parseable(Tail(hrefs))
    ELSE Parseable(Tail(hrefs))

\* a cut taken after the hrefs that are not followed are dropped
FirstLinksOfParseable(hrefs) ==
    SubSeq(Parseable(hrefs), 1, Min(Len(Parseable(hrefs)), settings.max_links_per_page))

\* extract_links(soup)[: max_links_per_page]
FirstLinks(hrefs) == SubSeq(hrefs, 1, Min(Len(hrefs), settings.max_links_per_page))

\* list.sort(key=url_priority_score): stable
RECURSIVE InsertByScore(_, _)
InsertByScore(ordered, url) ==
    IF ordered = <<>> THEN <<url>>
    ELSE IF url_priority_score(Head(ordered)) <= url_priority_score(url)
        THEN <<Head(ordered)>> \o InsertByScore(Tail(ordered), url)
    ELSE <<url>> \o ordered

\* a sort that leaves the list as it is
SortByScoreKeepsOrder(urls) == urls

RECURSIVE SortByScore(_)
SortByScore(urls) ==
    IF urls = <<>> THEN <<>>
    ELSE CHOOSE after \in
           { InsertByScore(ordered, urls[Len(urls)]) : ordered \in
               { SortByScore(SubSeq(urls, 1, Len(urls) - 1)) } } : TRUE

\* ------------------------------------------------ lines 169-174: enqueue
\* the budget test with > for >=
DiscoveredFullOffByOne(seen) == Cardinality(seen) > settings.max_pages

\* line 170: the discovered set has used the page budget
DiscoveredFull(seen) == Cardinality(seen) >= settings.max_pages

\* the state after pushing the candidates of a page handled at `depth`; the
\* state after each push is bound once, like the loop's variables
RECURSIVE PushAll(_, _, _)
PushAll(candidates, depth, st) ==
    IF candidates = <<>> \/ DiscoveredFull(st.discovered) THEN st
    ELSE LET normalized == Head(candidates)
             item == Item(normalized, depth + 1, st.sequence)
         IN  CHOOSE after \in
               { PushAll(Tail(candidates), depth, next) : next \in
                   { [discovered |-> st.discovered \cup {normalized},
                      links_enqueued |-> st.links_enqueued + 1,
                      frontier |-> st.frontier \cup {item},
                      pushed |-> st.pushed \cup {item},
                      sequence |-> st.sequence + 1] } } : TRUE

\* links followed at every depth
DepthStopsNever(depth) == FALSE

\* line 147: links of a page at this depth are not followed
DepthStops(depth) == depth >= settings.max_depth

\* the effective start adopted from every page
AdoptsAlways(url) == TRUE

\* line 130: the page is the start page
IsStart(url) == url = normalized_start

\* ------------------------------------- lines 113-174: handle one future
\* a failure counted in failed_pages but in no bucket of failure_reasons
FailedInNoBucket(reason) ==
    /\ fetched_failed' = fetched_failed + 1
    /\ UNCHANGED <<failure_reasons, fetched_ok, processed_pages, skipped_soup_parse,
                   crawlVars, baseVars, contactVars>>

Failed(reason) ==
    /\ fetched_failed' = fetched_failed + 1
    /\ failure_reasons' = [failure_reasons EXCEPT ![reason] = @ + 1]
    /\ UNCHANGED <<fetched_ok, processed_pages, skipped_soup_parse, crawlVars,
                   baseVars, contactVars>>

Handle(future) ==
    /\ pc = "process"
    /\ future \in done
    /\ done' = done \ {future}
    /\ in_flight' = in_flight \ {future}
    /\ handled' = handled \cup {future}
    /\ max_depth_reached' = Max(max_depth_reached, future.depth)
    /\ pc' = IF done' = {} THEN "top" ELSE "process"
    /\ \E outcome \in {fetch(site, future.url, settings)} :
       LET page == outcome.page
       IN  IF outcome.raised THEN Failed("future_exception")
           ELSE IF ~outcome.ok THEN Failed(outcome.reason)
           ELSE
             /\ fetched_ok' = fetched_ok + 1
             /\ UNCHANGED <<fetched_failed, failure_reasons>>
             /\ IF IsStart(future.url)
                THEN /\ effective_start' = page.final_url
                     /\ base_hostname' = hostname_key(page.final_url)
                     /\ phone_regions' = IF inferred_regions
                                        THEN InferredRegions(page.final_url)
                                        ELSE phone_regions
                ELSE UNCHANGED baseVars
             /\ IF ~page.soup
                THEN /\ skipped_soup_parse' = skipped_soup_parse + 1
                     /\ UNCHANGED <<processed_pages, crawlVars, contactVars>>
                ELSE
                  /\ processed_pages' = processed_pages + 1
                  /\ \E page_emails \in
                         {extract_emails(page, settings.email_domain_allowlist)} :
                         emails' = emails \cup page_emails
                  /\ \E page_phones \in {extract_phones(page, phone_regions')} :
                         phones' = phones \cup page_phones
                  /\ UNCHANGED skipped_soup_parse
                  /\ IF DepthStops(future.depth)
                     THEN UNCHANGED crawlVars
                     ELSE
                       \E links \in {FirstLinks(page.hrefs)} :
                       \E found \in {Candidates(links, page.final_url,
                                                base_hostname', discovered)} :
                       \E candidates \in {IF settings.focused_crawling
                                           THEN SortByScore(found) ELSE found} :
                       \E st \in {PushAll(candidates, future.depth,
                                       [discovered |-> discovered,
                                        links_enqueued |-> links_enqueued,
                                        frontier |-> frontier,
                                        pushed |-> pushed,
                                        sequence |-> sequence])} :
                              /\ links_examined' = links_examined + Len(links)
                              /\ discovered' = st.discovered
                              /\ links_enqueued' = st.links_enqueued
                              /\ frontier' = st.frontier
                              /\ pushed' = st.pushed
                              /\ sequence' = st.sequence
    /\ UNCHANGED <<configVars, returnVars, startVars, scheduled, dispatched, expired,
                   stop_reason>>

\* ----------------------------- lines 176-177 and 216-221: the end
Finish ==
    /\ pc = "finish"
    /\ stop_reason' = IF /\ stop_reason = "completed"
                         /\ frontier # {}
                         /\ in_flight = {}
                         /\ scheduled >= settings.max_pages
                      THEN "max_pages" ELSE stop_reason
    /\ \E listing \in {[emails |-> sorted(emails), phones |-> sorted(phones)]} :
          result' = [returned |-> TRUE, url |-> origin(effective_start),
                     emails |-> listing.emails, phones |-> listing.phones]
    /\ pc' = "done"
    /\ UNCHANGED <<configVars, startVars, crawlVars, baseVars, flightVars,
                   tallyVars, contactVars, expired, done>>

\* lines 53-87 and 216-221: parse has returned, and the caller calls it again
\* on the same SiteParser with the same start_url; every local starts afresh
ParseAgain ==
    /\ pc = "done"
    /\ ~previous.called
    /\ previous' = [called |-> TRUE, emails |-> emails, phones |-> phones,
                    stop_reason |-> stop_reason, expired |-> expired]
    /\ pc' = "start"
    /\ expired' = FALSE
    /\ normalized_start' = NoUrl
    /\ base_hostname' = ""
    /\ effective_start' = NoUrl
    /\ phone_regions' = <<>>
    /\ discovered' = {}
    /\ frontier' = {}
    /\ sequence' = 0
    /\ in_flight' = {}
    /\ done' = {}
    /\ scheduled' = 0
    /\ fetched_ok' = 0
    /\ fetched_failed' = 0
    /\ processed_pages' = 0
    /\ skipped_soup_parse' = 0
    /\ links_examined' = 0
    /\ links_enqueued' = 0
    /\ max_depth_reached' = 0
    /\ failure_reasons' = [r \in Reasons |-> 0]
    /\ stop_reason' = "completed"
    /\ emails' = {}
    /\ phones' = {}
    /\ pushed' = {}
    /\ dispatched' = {}
    /\ handled' = {}
    /\ result' = NotReturned
    /\ UNCHANGED <<settings, site, start_url, hostVars>>

\* one step of the orchestrating thread
Engine ==
    \/ ParseRaises
    \/ ParseStart
    \/ LoopExit
    \/ DeadlineStop
    \/ LoopEnter
    \/ Dispatch
    \/ NothingInFlight
    \/ RefillEnd
    \/ WaitDone
    \/ WaitTimeout
    \/ \E future \in done : Handle(future)
    \/ Finish

Next == Tick \/ Engine

Spec == Init /\ [][Next]_vars

\* The same engine under a coarser clock: the deadline passes only while the
\* orchestrating thread is blocked in wait() or busy with a page.
NextAtWork == TickAtWork \/ Engine

SpecAtWork == Init /\ [][NextAtWork]_vars

\* The engine when every submitted fetch returns or raises and the
\* orchestrating thread keeps running: a step of the engine that stays
\* possible is taken.  The clock is under no obligation to pass the deadline.
SpecLive == Init /\ [][Next]_vars /\ WF_vars(Engine)

\* the engine on the layered site
SpecLayers == InitLayers /\ [][Next]_vars

\* the engine on the one-page sites: one fetch of every kind
SpecFetch == InitFetch /\ [][Next]_vars

\* the engine on the one-page sites with a body: one body read of every kind
SpecBody == InitBody /\ [][Next]_vars

\* the engine started on every URL of Urls
SpecUrls == InitUrls /\ [][Next]_vars

\* the engine on the one-page sites with e-mails, under every allowlist
SpecAllow == InitAllow /\ [][Next]_vars

\* the engine on the one-page sites with phones, with and without regions
SpecPhones == InitPhones /\ [][Next]_vars

\* the engine on the one-page sites with cloaking scripts
SpecCloak == InitCloak /\ [][Next]_vars

\* the engine on the site whose first links are not followed
SpecLinks == InitLinks /\ [][Next]_vars

\* --------------------------------------------- the process around the engine
\* an engine that is not started
EngineIdle ==
    InitEngine({[max_pages |-> 0, max_depth |-> 0, max_concurrency |-> 1,
                 max_links_per_page |-> 2, include_query |-> FALSE,
                 focused_crawling |-> FALSE, max_body_bytes |-> 2000000,
                 email_domain_allowlist |-> <<>>, phone_regions |-> <<>>]},
               {[start_url |-> Http("a.com", "/"), site |-> SiteDeep]})

\* ParserSettings.from_env_and_file(config_path) is called
Load ==
    /\ loaded.outcome = "none"
    /\ loaded' = from_env_and_file(config_path, environ, config_data)
    /\ UNCHANGED <<engineVars, sessionVars, environ, config_path, config_data, webVars, logged,
                   bufferVars>>

InitLoad ==
    /\ EngineIdle /\ SessionIdle
    /\ environ \in Environs
    /\ config_path \in ConfigPaths
    /\ config_data \in ConfigDatas
    /\ loaded = NotLoaded
    /\ WebIdle /\ LogIdle /\ BufferIdle

SpecLoad == InitLoad /\ [][Load]_vars

\* sanitize_for_log(value) is called
Sanitize ==
    /\ ~logged.returned
    /\ logged' = [logged EXCEPT !.sanitized = sanitize_for_log(logged.value),
                                !.returned = TRUE]
    /\ UNCHANGED <<engineVars, sessionVars, loadVars, webVars, bufferVars>>

InitLog ==
    /\ EngineIdle /\ SessionIdle /\ LoadIdle /\ WebIdle /\ BufferIdle
    /\ logged \in [value : Mappings, sanitized : {NoMapping}, returned : {FALSE}]

SpecLog == InitLog /\ [][Sanitize]_vars

\* emit(record), lines 40-46: the message is formatted before the lock is
\* asked for
EmitCall ==
    \E t \in Threads :
        /\ threads[t].pc = "idle" /\ emitted.calls < MaxCalls
        /\ threads' = [threads EXCEPT ![t].pc = "emit: with"]
        /\ emitted' = [emitted EXCEPT !.calls = @ + 1]
        /\ UNCHANGED <<engineVars, sessionVars, loadVars, webVars, logged, buffer>>

\* list(after=...), line 59: called with the default, or by a client that
\* polls with the highest id it has seen
ListCall ==
    \E t \in Threads :
        /\ threads[t].pc = "idle" /\ emitted.calls < MaxCalls
        /\ \E after \in {0, threads[t].seen} :
              threads' = [threads EXCEPT ![t].pc = "list: with",
                                         ![t].items = <<>>,
                                         ![t].after_clear = emitted.cleared,
                                         ![t].listed = FALSE,
                                         ![t].after = after]
        /\ emitted' = [emitted EXCEPT !.calls = @ + 1]
        /\ UNCHANGED <<engineVars, sessionVars, loadVars, webVars, logged, buffer>>

\* clear()
ClearCall ==
    \E t \in Threads :
        /\ threads[t].pc = "idle" /\ emitted.calls < MaxCalls
        /\ threads' = [threads EXCEPT ![t].pc = "clear: with"]
        /\ emitted' = [emitted EXCEPT !.calls = @ + 1]
        /\ UNCHANGED <<engineVars, sessionVars, loadVars, webVars, logged, buffer>>

\* `with self._lock:` lets one thread in, lines 47, 60, 65
Acquire ==
    \E t \in Threads :
        /\ threads[t].pc \in {"emit: with", "list: with", "clear: with"}
        /\ buffer._lock = 0
        /\ buffer' = [buffer EXCEPT !._lock = t]
        /\ threads' = [threads EXCEPT ![t].pc =
                          CASE threads[t].pc = "emit: with" -> "emit: append"
                            [] threads[t].pc = "list: with" -> "list: copy"
                            [] threads[t].pc = "clear: with" -> "clear: records"]
        /\ UNCHANGED <<engineVars, sessionVars, loadVars, webVars, logged, emitted>>

\* lines 48-55: the entry has the id _next_id
EmitAppend ==
    \E t \in Threads :
        /\ threads[t].pc = "emit: append"
        /\ buffer' = [buffer EXCEPT !._records =
                          deque_append(@, buffer._next_id, buffer.max_records)]
        /\ threads' = [u \in Threads |->
                          IF u = t THEN [threads[u] EXCEPT !.pc = "emit: count"]
                          ELSE [threads[u] EXCEPT !.after_clear = FALSE]]
        /\ emitted' = [emitted EXCEPT !.all = Append(@, buffer._next_id),
                                      !.ever = Append(@, buffer._next_id),
                                      !.cleared = FALSE]
        /\ UNCHANGED <<engineVars, sessionVars, loadVars, webVars, logged>>

\* line 56, and the lock is given back
EmitCount ==
    \E t \in Threads :
        /\ threads[t].pc = "emit: count"
        /\ buffer' = [buffer EXCEPT !._next_id = @ + 1, !._lock = 0]
        /\ threads' = [threads EXCEPT ![t].pc = "idle"]
        /\ UNCHANGED <<engineVars, sessionVars, loadVars, webVars, logged, emitted>>

\* line 61, and the lock is given back
ListCopy ==
    \E t \in Threads :
        /\ threads[t].pc = "list: copy"
        /\ \E items \in {EntriesAfter(buffer._records, threads[t].after)} :
              threads' = [threads EXCEPT ![t].pc = "list: return",
                                         ![t].items = items,
                                         ![t].seen = Highest(items, @),
                                         ![t].seen_at = Len(emitted.ever)]
        /\ buffer' = [buffer EXCEPT !._lock = 0]
        /\ UNCHANGED <<engineVars, sessionVars, loadVars, webVars, logged, emitted>>

\* line 62; the limit is above max_records
ListReturn ==
    \E t \in Threads :
        /\ threads[t].pc = "list: return"
        /\ threads' = [threads EXCEPT ![t].pc = "idle", ![t].listed = TRUE]
        /\ UNCHANGED <<engineVars, sessionVars, loadVars, webVars, logged, buffer, emitted>>

\* line 66
ClearRecords ==
    \E t \in Threads :
        /\ threads[t].pc = "clear: records"
        /\ buffer' = [buffer EXCEPT !._records = <<>>]
        /\ threads' = [threads EXCEPT ![t].pc = "clear: id"]
        /\ emitted' = [emitted EXCEPT !.all = <<>>]
        /\ UNCHANGED <<engineVars, sessionVars, loadVars, webVars, logged>>

\* line 67, and the lock is given back
ClearId ==
    \E t \in Threads :
        /\ threads[t].pc = "clear: id"
        /\ buffer' = [buffer EXCEPT !._next_id = 1, !._lock = 0]
        /\ threads' = [threads EXCEPT ![t].pc = "clear: return"]
        /\ UNCHANGED <<engineVars, sessionVars, loadVars, webVars, logged, emitted>>

\* clear() returns; nothing was appended since line 66 if the buffer is
\* still what the clearing left
ClearReturn ==
    \E t \in Threads :
        /\ threads[t].pc = "clear: return"
        /\ threads' = [threads EXCEPT ![t].pc = "idle"]
        /\ emitted' = [emitted EXCEPT !.cleared = (emitted.all = <<>>)]
        /\ UNCHANGED <<engineVars, sessionVars, loadVars, webVars, logged, buffer>>

NextBuffer ==
    \/ EmitCall \/ ListCall \/ ClearCall \/ Acquire \/ EmitAppend \/ EmitCount
    \/ ListCopy \/ ListReturn \/ ClearRecords \/ ClearId \/ ClearReturn

InitBuffer ==
    /\ EngineIdle /\ SessionIdle /\ LoadIdle /\ WebIdle /\ LogIdle
    /\ buffer \in {InMemoryLogBuffer(n) : n \in 0..MaxRecords}
    /\ threads = [t \in Threads |-> Idle]
    /\ emitted = NothingEmitted

SpecBuffer == InitBuffer /\ [][NextBuffer]_vars

\* POST /api/parse is answered
ParseEndpoint ==
    /\ response.status = 0
    /\ response' = parse_endpoint(payload, environ, config_data)
    /\ loaded' = IF strip(payload.url) = "" THEN loaded
                 ELSE from_env_and_file(payload.config, environ, config_data)
    /\ UNCHANGED <<engineVars, sessionVars, environ, config_path, config_data, payload, logged,
                   bufferVars>>

InitWeb ==
    /\ EngineIdle /\ SessionIdle
    /\ environ \in { env \in Environs :
                       /\ ~env.PARSER_CONFIG_FILE.set
                       /\ ~env.PARSER_PHONE_REGIONS.set
                       /\ ~env.PARSER_PHONE_DEFAULT_REGION.set
                       /\ ~env.PARSER_EMAIL_DOMAIN_ALLOWLIST.set
                       /\ ~env.PARSER_LOG_LEVEL.set
                       /\ env.PARSER_MAX_PAGES \in {Unset, Set("many")}
                       /\ ~env.PARSER_INCLUDE_QUERY.set }
    /\ config_path = ""
    /\ config_data \in { data \in ConfigDatas :
                           /\ ~data.phone_regions.present
                           /\ ~data.email_domain_allowlist.present
                           /\ ~data.proxy.present /\ ~data.include_query.present }
    /\ loaded = NotLoaded
    /\ payload \in Payloads
    /\ response = NoResponse
    /\ LogIdle /\ BufferIdle

SpecWeb == InitWeb /\ [][ParseEndpoint]_vars

\* HttpClient.fetch(url) is run by a thread of the pool, line 46; what the
\* fetch then does with the session is in fetch above
WorkerFetch(thread) ==
    /\ Cardinality({use \in session_uses : use.thread = thread}) < MaxFetches
    /\ \E got \in {_get_session(http_client, sessions, thread)} :
          /\ http_client' = got.self
          /\ sessions' = got.objects
          /\ session_uses' = session_uses \cup
                {[thread |-> thread, session |-> got.session,
                  nth |-> Cardinality({use \in session_uses : use.thread = thread}) + 1]}
    /\ UNCHANGED <<engineVars, loadVars, webVars, logged, bufferVars>>

NextSession == \E thread \in Workers : WorkerFetch(thread)

\* a client made without a session, or with a session of the caller's, on
\* which nothing of the client's is mounted
InitSession ==
    /\ EngineIdle
    /\ LoadIdle /\ WebIdle /\ LogIdle /\ BufferIdle
    /\ \/ SessionIdle
       \/ /\ sessions = {[id |-> 1, mounts |-> {}]}
          /\ http_client = HttpClient(1)
          /\ session_uses = {}

SpecSession == InitSession /\ [][NextSession]_vars

\* parse called once, or twice with the same inputs
NextTwice == Next \/ ParseAgain

SpecTwice == Init /\ [][NextTwice]_vars

\* ================================================================ claims
\* a handled future whose page parsed and still shows links that are on the
\* crawled domain and were never discovered
LeftOut(future) ==
    LET outcome == fetch(site, future.url, settings)
    IN  /\ outcome.ok
        /\ outcome.page.soup
        /\ ~DepthStops(future.depth)
        /\ Candidates(FirstLinks(outcome.page.hrefs), outcome.page.final_url,
                      base_hostname, discovered) # <<>>

\* C1: the number of URLs dispatched to the fetcher never exceeds max_pages,
\* for every max_pages >= 0.
C1_ScheduledWithinBudget == scheduled <= settings.max_pages

\* the refill loop stopped by the page budget alone
C1_Witness ==
    /\ pc = "refill"
    /\ frontier # {}
    /\ Cardinality(in_flight) < max_concurrency
    /\ settings.max_pages >= 1
    /\ scheduled = settings.max_pages

\* C2 (as claimed): every URL in the frontier or in flight is in the
\* discovered set, and no canonical URL is inserted into the frontier more
\* than once in a run.
C2_FrontierInsertedOnce ==
    /\ \A item \in frontier : item.url \in discovered
    /\ \A future \in in_flight : future.url \in discovered
    /\ \A i, j \in pushed : i.url = j.url => i = j

\* C3 (as claimed): once seeding is done the discovered set never holds more
\* than max_pages URLs, for every max_pages >= 0.
C3_DiscoveredWithinBudget ==
    pc \notin {"start", "error"} => Cardinality(discovered) <= settings.max_pages

\* C3 (amended): after seeding the discovered set holds at most
\* max(1, max_pages) URLs (the seed is always discovered), and once it holds
\* max_pages URLs or more, link discovery adds nothing to it.
C3_DiscoveredWithinBudgetOrSeed ==
    /\ [](pc \notin {"start", "error"} =>
            Cardinality(discovered) <= Max(1, settings.max_pages))
    /\ [][(pc # "start" /\ Cardinality(discovered) >= settings.max_pages)
            => discovered' = discovered]_vars

\* the budget is used up and a handled page still shows undiscovered links
C3_Witness ==
    /\ settings.max_pages >= 2
    /\ Cardinality(discovered) = settings.max_pages
    /\ \E future \in handled : LeftOut(future)

\* C4 (as claimed): a URL that has been dispatched is never queued or
\* dispatched again: it is fetched at most once and its outcome is handled
\* at most once.
C4_ForwardOnly ==
    /\ \A f, g \in dispatched : f.url = g.url => f = g
    /\ \A f \in dispatched : \A item \in frontier : item.url # f.url
    /\ \A f, g \in handled : f.url = g.url => f = g

\* C5: for max_concurrency >= 1 the in-flight map never holds more than
\* max_concurrency entries, and a URL moves from the frontier to in-flight
\* only in a state where |in_flight| < max_concurrency and
\* scheduled < max_pages.
C5_WidthAndBudgetAtDispatch ==
    /\ [](settings.max_concurrency >= 1 =>
            Cardinality(in_flight) <= settings.max_concurrency)
    /\ [][(settings.max_concurrency >= 1 /\ dispatched' # dispatched) =>
            /\ Cardinality(in_flight) < settings.max_concurrency
            /\ scheduled < settings.max_pages]_vars

\* the refill loop stopped by the width alone, with two fetches in flight
C5_Witness ==
    /\ pc = "refill"
    /\ settings.max_concurrency >= 2
    /\ Cardinality(in_flight) = settings.max_concurrency
    /\ frontier # {}
    /\ scheduled < settings.max_pages

\* C6: every item ever placed in the frontier has depth <= max_depth, the
\* reported max_depth_reached is <= max_depth, and handling a page at depth
\* >= max_depth puts nothing in the frontier.
C6_DepthBounded ==
    /\ [](/\ \A item \in pushed : item.depth <= settings.max_depth
          /\ max_depth_reached <= settings.max_depth)
    /\ [][\A future \in handled' \ handled :
            future.depth >= settings.max_depth => pushed' = pushed]_vars

\* a page with links was handled at depth max_depth >= 1
C6_Witness ==
    /\ settings.max_depth >= 1
    /\ max_depth_reached = settings.max_depth
    /\ \E future \in handled :
         LET outcome == fetch(site, future.url, settings)
         IN  /\ future.depth = settings.max_depth
             /\ outcome.ok
             /\ outcome.page.soup
             /\ outcome.page.hrefs # <<>>

\* C7: every URL in the frontier has scheme http or https and the hostname
\* key of the engine's current base, also after the base was recomputed from
\* a redirected start page; no link to a host with another key is enqueued
\* or fetched.
C7_SameDomainFrontier ==
    /\ \A item \in frontier :
         /\ item.url.scheme \in {"http", "https"}
         /\ hostname_key(item.url) = base_hostname
    /\ \A future \in in_flight : hostname_key(future.url) = base_hostname
    /\ \A item \in pushed : item.sequence > 0 => hostname_key(item.url) = base_hostname
    /\ \A future \in dispatched :
         future.url # normalized_start => hostname_key(future.url) = base_hostname

\* the base was recomputed from a redirect to another host, links were
\* dropped, and links of the new host are queued
C7_Witness ==
    /\ base_hostname # hostname_key(normalized_start)
    /\ frontier # {}
    /\ links_examined > links_enqueued

\* C8 (as claimed): at the end of a run every dispatched URL has the hostname
\* key of the effective start.
C8_AllDispatchedOnEffectiveHost ==
    pc = "done" =>
        \A future \in dispatched : hostname_key(future.url) = hostname_key(effective_start)

\* C8 (amended): at the end of a run every dispatched URL other than the
\* canonical start URL itself has the hostname key of the effective start.
C8_LinksDispatchedOnEffectiveHost ==
    pc = "done" =>
        \A future \in dispatched :
            future.url # normalized_start => hostname_key(future.url) = hostname_key(effective_start)

\* a run that adopted a start on another host and went on to fetch links
C8_Witness ==
    /\ pc = "done"
    /\ hostname_key(effective_start) # hostname_key(normalized_start)
    /\ \E future \in dispatched : future.url # normalized_start

\* C9 (as claimed): once the deadline has passed no fetch result is handled,
\* nothing changes e-mails, phones, the discovered set or the frontier, and
\* no fetch is dispatched.
C9_NothingAfterDeadline ==
    [][expired =>
        /\ handled' = handled
        /\ emails' = emails
        /\ phones' = phones
        /\ discovered' = discovered
        /\ frontier' = frontier
        /\ dispatched' = dispatched]_vars

\* C10 (as claimed): a run that ends with the deadline passed and work left
\* (frontier or in-flight non-empty) reports max_seconds.
C10_DeadlineTakesPrecedence ==
    (pc = "done" /\ expired /\ (frontier # {} \/ in_flight # {}))
        => stop_reason = "max_seconds"

\* C11: when every dispatched fetch returns or raises, every run of parse
\* ends: it returns a result or raises on the start URL; the loop does not go
\* round for ever with a non-empty frontier and nothing in flight.
C11_ParseTerminates == <>(pc \in {"done", "error"})

\* a run that returned before the deadline with URLs still queued and
\* nothing in flight
C11_Witness ==
    /\ pc = "done"
    /\ ~expired
    /\ frontier # {}
    /\ in_flight = {}

\* C12 (as claimed): two calls of parse with the same site and the same
\* configuration, neither stopped by the deadline, return the same e-mails
\* and phones, whatever the order in which the fetches in flight complete.
C12_SameListsWhateverOrder ==
    (/\ pc = "done"
     /\ previous.called
     /\ ~expired /\ stop_reason # "max_seconds"
     /\ ~previous.expired /\ previous.stop_reason # "max_seconds")
        => (emails = previous.emails /\ phones = previous.phones)

\* C13 (as claimed): an item popped from the frontier was inserted before
\* every item of equal priority that stays behind; with focused crawling
\* disabled every item has priority 0 and the frontier is popped in
\* insertion order.
C13_PoppedInInsertionOrder ==
    /\ [](~settings.focused_crawling => \A item \in pushed : item.priority = 0)
    /\ [][\A x \in frontier \ frontier' : \A y \in frontier' \cap frontier :
            x.priority = y.priority => x.sequence < y.sequence]_vars

\* C13 (amended): of the items of equal priority the shallowest is popped
\* first, and an item popped was inserted before every item of equal priority
\* and equal depth that stays behind; with focused crawling disabled every
\* item has priority 0 and the frontier is popped in (depth, insertion) order.
C13_PoppedByDepthThenInsertion ==
    /\ [](~settings.focused_crawling => \A item \in pushed : item.priority = 0)
    /\ [][\A x \in frontier \ frontier' : \A y \in frontier' \cap frontier :
            x.priority = y.priority =>
                \/ x.depth < y.depth
                \/ x.depth = y.depth /\ x.sequence < y.sequence]_vars

\* with focused crawling disabled, an item was popped ahead of an item
\* inserted before it, and ahead of one of its own depth inserted after it
C13_Witness ==
    /\ ~settings.focused_crawling
    /\ \E x \in pushed \ frontier : \E y \in frontier :
         x.depth < y.depth /\ x.sequence > y.sequence
    /\ \E x \in pushed \ frontier : \E y \in pushed :
         x.depth = y.depth /\ x.sequence < y.sequence

\* the elements of a sequence
Range(seq) == {seq[i] : i \in 1..Len(seq)}

\* the place where a URL first stands in a list of candidates
FirstIndex(seq, url) ==
    CHOOSE i \in 1..Len(seq) : seq[i] = url /\ \A j \in 1..(i - 1) : seq[j] # url

\* the candidate links of the page a handling step processes, in document
\* order, as they stand when the step is taken
FoundBy(future) ==
    LET outcome == fetch(site, future.url, settings)
    IN  IF outcome.ok /\ outcome.page.soup /\ ~DepthStops(future.depth)
        THEN Candidates(FirstLinks(outcome.page.hrefs), outcome.page.final_url,
                        base_hostname', discovered)
        ELSE <<>>

\* candidate a goes before candidate b: lower focus score first and document
\* order among equal scores when focused crawling is on, document order alone
\* when it is off
GoesBefore(found, a, b) ==
    IF settings.focused_crawling
    THEN \/ url_priority_score(a) < url_priority_score(b)
         \/ /\ url_priority_score(a) = url_priority_score(b)
            /\ FirstIndex(found, a) < FirstIndex(found, b)
    ELSE FirstIndex(found, a) < FirstIndex(found, b)

\* C14: when a handled page has more new same-domain candidates than the
\* discovered set has room for (max_pages - |discovered|), the links it
\* admits to the frontier are as many as there is room for and go before all
\* the others: lowest focus score first (document order among equal scores)
\* with focused crawling, document order without; the others are not admitted.
C14_AdmitsLowestWithinRoom ==
    [][\A future \in handled' \ handled :
        LET found == FoundBy(future)
            room == Max(0, settings.max_pages - Cardinality(discovered))
            admitted == {item.url : item \in frontier' \ frontier}
        IN  Len(found) > room =>
              /\ admitted \subseteq Range(found)
              /\ admitted = discovered' \ discovered
              /\ Cardinality(admitted) = Min(room, Cardinality(Range(found)))
              /\ \A a \in admitted : \A b \in Range(found) \ admitted :
                    GoesBefore(found, a, b)]_vars

\* under focused crawling a page with room for one link admitted /contact,
\* its second link, and left /docs, its first link, out
C14_Witness ==
    /\ settings.focused_crawling
    /\ settings.max_pages = 2
    /\ \E item \in pushed : item.url.path = "/contact" /\ item.depth = 1
    /\ \A url \in discovered : url.path # "/docs"
    /\ \E future \in handled : LeftOut(future)

\* C15: handling a failed fetch outcome, or a worker task that raised, never
\* aborts the run: it adds one to failed_pages and to exactly one bucket of
\* failure_reasons (the outcome's reason, or future_exception for a raised
\* task), leaves e-mails, phones, the discovered set and the frontier as they
\* are, and the loop goes on with the other futures and the queued URLs.
C15_FailureIsCountedAndSkipped ==
    /\ [](pc = "error" => dispatched = {})
    /\ [][\A future \in handled' \ handled :
            LET outcome == fetch(site, future.url, settings)
                bucket == IF outcome.raised THEN "future_exception" ELSE outcome.reason
            IN  (outcome.raised \/ ~outcome.ok) =>
                  /\ bucket \in Reasons
                  /\ fetched_failed' = fetched_failed + 1
                  /\ failure_reasons' = [failure_reasons EXCEPT ![bucket] = @ + 1]
                  /\ fetched_ok' = fetched_ok
                  /\ emails' = emails /\ phones' = phones
                  /\ discovered' = discovered /\ frontier' = frontier
                  /\ in_flight' = in_flight \ {future}
                  /\ done' = done \ {future}
                  /\ pc' = IF done' = {} THEN "top" ELSE "process"]_vars

\* a task that raised was handled, a page dispatched after it was fetched,
\* and the run came to its end
C15_Witness ==
    /\ pc = "done"
    /\ failure_reasons["future_exception"] > 0
    /\ \E f, g \in handled :
         /\ fetch(site, f.url, settings).raised
         /\ fetch(site, g.url, settings).ok
         /\ f.id < g.id

\* C16: when start_url has a scheme other than http/https or no host, parse
\* raises before the worker pool exists and before any fetch is dispatched,
\* and returns no result; it raises in no other case.
C16_BadStartRaisesFirst ==
    LET bad == \/ Lower(start_url.scheme) \notin {"http", "https"}
               \/ start_url.host = ""
    IN  /\ bad => /\ pc \in {"start", "error"}
                  /\ dispatched = {} /\ scheduled = 0
                  /\ frontier = {} /\ discovered = {}
        /\ pc = "error" => bad

\* parse raised on "ftp://a.com/", a URL with a host and the wrong scheme
C16_Witness ==
    /\ pc = "error"
    /\ start_url.scheme = "ftp"
    /\ start_url.host # ""

\* the handled futures of the canonical start URL whose fetch succeeded
StartSuccesses ==
    {future \in handled :
        /\ future.url = normalized_start
        /\ fetch(site, future.url, settings).ok}

\* C17: after seeding, the effective start, the base hostname key and the
\* inferred phone regions change only when a successful outcome of the canonical start URL is handled, and
\* they become that page's final URL and its hostname key; this happens at
\* most once in a run; at the end the effective start (whose origin is the
\* result's url) is the adopted final URL, or the canonical start URL when
\* the start fetch did not succeed.
C17_AdoptedOnceFromStart ==
    /\ [](Cardinality(StartSuccesses) <= 1)
    /\ [](pc = "done" =>
            /\ \A future \in StartSuccesses :
                  effective_start =
                    fetch(site, future.url, settings).page.final_url
            /\ StartSuccesses = {} =>
                  /\ effective_start = normalized_start
                  /\ origin(effective_start) = origin(normalized_start)
                  /\ base_hostname = hostname_key(normalized_start)
                  /\ phone_regions = InferredRegions(normalized_start))
    /\ [][(pc # "start" /\ baseVars' # baseVars) =>
            \E future \in handled' \ handled :
                LET outcome == fetch(site, future.url, settings)
                IN  /\ future.url = normalized_start
                    /\ outcome.ok
                    /\ StartSuccesses = {}
                    /\ effective_start' = outcome.page.final_url
                    /\ base_hostname' = hostname_key(outcome.page.final_url)
                    /\ phone_regions' = InferredRegions(outcome.page.final_url)]_vars

\* the start page was adopted from a redirect to another host, and a later
\* page that was itself redirected elsewhere was fetched without being adopted
C17_Witness ==
    /\ pc = "done"
    /\ StartSuccesses # {}
    /\ origin(effective_start) # origin(normalized_start)
    /\ phone_regions = <<"RU">>
    /\ \E future \in handled :
         LET outcome == fetch(site, future.url, settings)
         IN  /\ future.url # normalized_start
             /\ outcome.ok
             /\ outcome.page.final_url # future.url
             /\ outcome.page.final_url # effective_start

\* what the gates of fetch, taken in the claimed order, make of an answer:
\* no response at all; a final status >= 400; a Content-Type that is
\* non-empty and names none of the three allowed types; an error while the
\* body is read; a final URL that does not canonicalize
GatesSay(r) ==
    IF r.error = "request_error" THEN "request_error"
    ELSE IF r.status >= 400 THEN "http_status"
    ELSE IF r.ctype \in {"application/pdf", "image/png"} THEN "content_type"
    ELSE IF r.error = "body_error" THEN "request_error"
    ELSE IF r.url.scheme \notin {"http", "https"} \/ r.url.host = ""
        THEN "url_normalize"
    ELSE "ok"

\* C18: a fetch that returns gives either a page with reason ok or no page
\* with one of the four failure reasons, decided by the gates in this order:
\* status >= 400 gives http_status whatever the Content-Type and the body; a
\* non-empty Content-Type naming none of text/html, application/xhtml+xml,
\* text/plain (in any case) gives content_type before the body is read; a
\* transport error gives request_error; a final URL that does not
\* canonicalize gives url_normalize.
C18_GatesInOrder ==
    /\ [](\A url \in DOMAIN site :
            LET outcome == fetch(site, url, settings)
            IN  ~outcome.raised =>
                  /\ outcome.reason = GatesSay(site[url])
                  /\ outcome.ok <=> outcome.reason = "ok"
                  /\ outcome.ok <=> outcome.page # NoPage
                  /\ outcome.reason \in {"ok", "http_status", "content_type",
                                         "url_normalize", "request_error"})
    /\ [][\A future \in handled' \ handled :
            LET r == Response(site, future.url)
            IN  r.error # "raise" =>
                  IF GatesSay(r) = "ok"
                  THEN fetched_ok' = fetched_ok + 1 /\ failure_reasons' = failure_reasons
                  ELSE /\ fetched_ok' = fetched_ok
                       /\ failure_reasons' =
                            [failure_reasons EXCEPT ![GatesSay(r)] = @ + 1]]_vars

\* a 404 that carries a PDF and whose body cannot be read was counted as
\* http_status
C18_Witness ==
    /\ pc = "done"
    /\ failure_reasons["http_status"] = 1
    /\ \E future \in handled :
         /\ Response(site, future.url).status = 404
         /\ Response(site, future.url).ctype = "application/pdf"
         /\ Response(site, future.url).error = "body_error"

\* the bytes of a stream of chunks
RECURSIVE Stream(_)
Stream(chunks) ==
    IF chunks = <<>> THEN <<>> ELSE Head(chunks) \o Stream(Tail(chunks))

\* the chunks after which the accumulated length exceeds the limit
Exceeding(chunks, max_bytes) ==
    {i \in 1..Len(chunks) : Len(Stream(SubSeq(chunks, 1, i))) > max_bytes}

\* C20: for every sequence of chunks and every max_body_bytes >= 0, the body
\* fetch keeps is the first min(stream length, max_body_bytes) bytes of the
\* stream, it is never longer than max_body_bytes, and no chunk is read
\* after the first chunk that takes the accumulated length over the limit.
C20_BodyIsBoundedPrefix ==
    \A url \in DOMAIN site :
        LET chunks == site[url].chunks
            max_bytes == settings.max_body_bytes
            stream == Stream(chunks)
            body == _read_limited_body(chunks, max_bytes)
            read == ReadChunks(chunks, max_bytes, <<>>, 1).read
        IN  /\ body = SubSeq(stream, 1, Min(Len(stream), max_bytes))
            /\ Len(body) <= max_bytes
            /\ \A i \in Exceeding(chunks, max_bytes) : read <= i
            /\ fetch(site, url, settings).ok =>
                  fetch(site, url, settings).page.body = body

\* a page was fetched whose body came in two chunks, the second of which
\* took it over a limit of at least one byte, and was cut to the limit
C20_Witness ==
    /\ pc = "done"
    /\ settings.max_body_bytes >= 1
    /\ \E future \in handled :
         LET chunks == site[future.url].chunks
             page == fetch(site, future.url, settings).page
         IN  /\ Len(chunks) = 2
             /\ Exceeding(chunks, settings.max_body_bytes) = {2}
             /\ Len(page.body) = settings.max_body_bytes
             /\ page.body # Stream(chunks)

\* whether a list of strings is strictly ascending
Ascending(list) == \A i \in 1..(Len(list) - 1) : StrLess(list[i], list[i + 1])

\* the pages of two handled futures both showed this e-mail
SeenTwice(email) ==
    \E f, g \in handled :
        /\ f # g
        /\ \A h \in {f, g} :
              LET outcome == fetch(site, h.url, settings)
              IN  outcome.ok /\ outcome.page.soup /\ email \in outcome.page.emails

\* C21: the emails and phones lists of a result are strictly ascending, hence
\* sorted and free of duplicates, and list exactly the contacts collected,
\* however many pages showed a contact and in whatever order they were handled.
C21_ResultSortedNoDuplicates ==
    result.returned =>
        /\ Ascending(result.emails)
        /\ Ascending(result.phones)
        /\ {result.emails[i] : i \in 1..Len(result.emails)} = emails
        /\ {result.phones[i] : i \in 1..Len(result.phones)} = phones

\* a run returned three e-mails, one of them seen on two pages
C21_Witness ==
    /\ result.returned
    /\ Len(result.emails) >= 3
    /\ \E i \in 1..Len(result.emails) : SeenTwice(result.emails[i])

\* C22: whenever normalize_url(u, q) succeeds, normalize_url applied to its
\* result with the same q succeeds and returns that result, for the start URL
\* u of the run and both values of q.
C22_NormalizeIdempotent ==
    \A q \in BOOLEAN :
        normalize_ok(start_url) =>
            LET once == normalize_url(start_url, q)
            IN  /\ normalize_ok(once)
                /\ normalize_url(once, q) = once

\* the page served at the start URL of a one-page site
StartPage == site[normalized_start]

\* every e-mail candidate of a page: from its text, its mailto links and its
\* cloaking scripts
RawCandidates(page) ==
    page.emails
    \cup { _parse_mailto(page.hrefs[i]) :
             i \in { k \in 1..Len(page.hrefs) : page.hrefs[k].scheme = "mailto" } }
    \cup UNION { { CloakedValues(page.scripts[i])[j] :
                     j \in 1..Len(CloakedValues(page.scripts[i])) } :
                 i \in 1..Len(page.scripts) }

\* the candidates that pass validation, in their validated lowercase form
Validated(page) ==
    { str_lower(validate_email_normalized(strip(c))) :
        c \in { r \in RawCandidates(page) : validate_email_ok(strip(r)) } }

\* the text of an address after its "@"
DomainOf(email) == RPartitionTail(email, "@")

\* the domain is the entry, or some text, a dot, and the entry
OnDotBoundary(domain, entry) ==
    \/ domain = entry
    \/ \E k \in 2..Len(domain) :
          /\ SubSeq(domain, k, k) = "."
          /\ SubSeq(domain, k + 1, Len(domain)) = entry

\* the domain ends with the characters of the entry
EndsWithCharacters(domain, entry) ==
    \E k \in 1..Len(domain) : SubSeq(domain, k, Len(domain)) = entry

\* C23: with an allowlist configured a validated candidate (from text, mailto
\* or cloaked script) is kept if and only if its domain equals an entry or
\* ends with "." and an entry, so a domain that only ends with an entry's
\* characters is dropped; with no allowlist every validated candidate is
\* kept; nothing but validated candidates is kept.
C23_KeptIffOnAllowlist ==
    (pc = "done" /\ processed_pages = 1 /\ site # SiteDeep) =>
        LET allowlist == settings.email_domain_allowlist
        IN  /\ emails \subseteq Validated(StartPage)
            /\ \A email \in Validated(StartPage) :
                  email \in emails <=>
                     \/ allowlist = <<>>
                     \/ \E i \in 1..Len(allowlist) :
                           OnDotBoundary(DomainOf(email), allowlist[i])

\* under an allowlist with mail.ru a page showed an address at a subdomain of
\* it, kept, and one at notmail.ru, dropped
C23_Witness ==
    /\ pc = "done" /\ processed_pages = 1 /\ site # SiteDeep
    /\ \E i \in 1..Len(settings.email_domain_allowlist) :
          /\ settings.email_domain_allowlist[i] = "mail.ru"
          /\ \E kept, dropped \in Validated(StartPage) :
                /\ kept \in emails
                /\ DomainOf(kept) # "mail.ru"
                /\ dropped \notin emails
                /\ EndsWithCharacters(DomainOf(dropped), "mail.ru")

\* a number as written, read as an international one: a leading 00 or 011
\* replaced by "+", then "+" and the digits if it begins with "+"; "" if not
AsInternational(written) ==
    LET value == strip(written)
        plus == IF startswith(value, "00") THEN "+" \o SubSeq(value, 3, Len(value))
                ELSE IF startswith(value, "011") THEN "+" \o SubSeq(value, 4, Len(value))
                ELSE value
    IN  IF startswith(plus, "+") THEN "+" \o DigitsOf(plus) ELSE ""

\* the numbers a page shows, as written: in its text and in its tel links
WrittenNumbers(page) ==
    page.phones
    \cup { _parse_tel(page.hrefs[i]) :
             i \in { k \in 1..Len(page.hrefs) : page.hrefs[k].scheme = "tel" } }

\* no regions are configured and the host of the effective start URL has a
\* TLD outside the region map; the one page of the site has been processed
UnknownRegionRead ==
    /\ pc = "done" /\ processed_pages = 1 /\ site # SiteDeep
    /\ settings.phone_regions = <<>>
    /\ infer_phone_region(effective_start) = "ZZ"

\* C24: with no regions configured and an effective start host of unknown TLD
\* the region list is empty and the phones found are exactly the valid
\* international readings of the numbers written with "+", 00 or 011 in the
\* text and in tel links: a number written otherwise, in the text or in a tel
\* link, yields no phone.
C24_UnknownRegionInternationalOnly ==
    UnknownRegionRead =>
        /\ phone_regions = <<>>
        /\ phones = { number \in { AsInternational(w) : w \in WrittenNumbers(StartPage) } :
                        _is_valid(number) }

\* such a page showed a local number in its text and one in a tel link, which
\* gave nothing, and a number written with 00 and a tel link with "+", which
\* gave phones
C24_Witness ==
    /\ UnknownRegionRead
    /\ {"8 (800) 555-35-35", "00 7 953 640-53-68"} \subseteq StartPage.phones
    /\ {"8 800 555 35 35", "+14155552671"} \subseteq WrittenNumbers(StartPage)
    /\ phones = {"+79536405368", "+14155552671"}

\* The value statement k of a script gives: its literals, unescaped, and the
\* current values of its identifiers, in order.  The current value of a name
\* at statement k is the value of the latest statement before k that assigns
\* the name and gave a non-empty value (the name is bound from then on); a
\* name with no such statement is unbound and stands for the empty string.
RECURSIVE ValueAt(_, _)
ValueAt(script, k) ==
    LET statements == script.statements
        Binding(name) == { j \in 1..(k - 1) :
                             /\ statements[j].target = name
                             /\ ValueAt(script, j) # "" }
        Current(name) == IF Binding(name) = {} THEN ""
                         ELSE ValueAt(script,
                                CHOOSE j \in Binding(name) :
                                    \A i \in Binding(name) : i <= j)
        Piece(token) == IF token.kind = "literal" THEN html_unescape(token.text)
                        ELSE Current(token.text)
        Joined[n \in 0..Len(statements[k].expr)] ==
            IF n = 0 THEN "" ELSE Joined[n - 1] \o Piece(statements[k].expr[n])
    IN  Joined[Len(statements[k].expr)]

\* the values with an "@" that the addy assignments of the scripts that
\* contain "cloak" or "addy" give
Submitted(page) ==
    UNION { { ValueAt(page.scripts[i], k) :
                k \in { n \in 1..Len(page.scripts[i].statements) :
                          /\ page.scripts[i].statements[n].target # ""
                          /\ HasChar(ValueAt(page.scripts[i], n), "@") } } :
            i \in { n \in 1..Len(page.scripts) : page.scripts[n].trigger } }

Given(raw) == raw.set /\ raw.text # ""

\* the file that is read, if any: the argument, else PARSER_CONFIG_FILE
FileRead ==
    config_path # "" \/ Given(environ.PARSER_CONFIG_FILE)

\* the value the file has for a key, if the file is read and has the key
InFile(key) == FileRead /\ config_data[key].present

\* the value of a field by precedence: the environment's, else the file's,
\* else the default
ByPrecedence(raw, fromEnv, key, fromFile) ==
    IF Given(raw) THEN fromEnv
    ELSE IF InFile(key) THEN fromFile
    ELSE ParserSettings[key]

\* the fields but phone_regions are resolved by precedence, and only the
\* fields of ParserSettings are in the result
ResolvedButRegions ==
    /\ DOMAIN loaded.settings = Fields
    /\ loaded.settings.max_pages =
          ByPrecedence(environ.PARSER_MAX_PAGES, int(environ.PARSER_MAX_PAGES.text),
                       "max_pages", config_data.max_pages.value)
    /\ loaded.settings.include_query =
          ByPrecedence(environ.PARSER_INCLUDE_QUERY,
                       _coerce_bool(environ.PARSER_INCLUDE_QUERY.text),
                       "include_query", config_data.include_query.value)
    /\ loaded.settings.email_domain_allowlist =
          ByPrecedence(environ.PARSER_EMAIL_DOMAIN_ALLOWLIST,
                       _normalize_domain_suffixes(
                           Text(environ.PARSER_EMAIL_DOMAIN_ALLOWLIST.text)),
                       "email_domain_allowlist",
                       _normalize_domain_suffixes(config_data.email_domain_allowlist.value))
    /\ loaded.settings.log_level =
          ByPrecedence(environ.PARSER_LOG_LEVEL, environ.PARSER_LOG_LEVEL.text,
                       "log_level", config_data.log_level.value)

\* C26: from_env_and_file resolves every recognized field by precedence: the
\* value of its environment variable if that is set and not empty, else the
\* value of the file if it has the key, else the default of the dataclass;
\* keys of the file that are no fields are ignored.
C26_EnvThenFileThenDefault ==
    loaded.outcome = "settings" =>
        /\ ResolvedButRegions
        /\ loaded.settings.phone_regions =
              ByPrecedence(environ.PARSER_PHONE_REGIONS,
                           _normalize_regions_of_settings(
                               Text(environ.PARSER_PHONE_REGIONS.text)),
                           "phone_regions",
                           _normalize_regions_of_settings(config_data.phone_regions.value))

\* C26, amended: the same, and for phone_regions a second environment
\* variable, PARSER_PHONE_DEFAULT_REGION, stands in for PARSER_PHONE_REGIONS
\* when that is unset or empty, before the file is looked at.
C26_EnvThenFallbackThenFileThenDefault ==
    loaded.outcome = "settings" =>
        /\ ResolvedButRegions
        /\ loaded.settings.phone_regions =
              IF Given(environ.PARSER_PHONE_REGIONS)
              THEN _normalize_regions_of_settings(Text(environ.PARSER_PHONE_REGIONS.text))
              ELSE IF Given(environ.PARSER_PHONE_DEFAULT_REGION)
              THEN _normalize_regions_of_settings(
                       Text(environ.PARSER_PHONE_DEFAULT_REGION.text))
              ELSE IF InFile("phone_regions")
              THEN _normalize_regions_of_settings(config_data.phone_regions.value)
              ELSE <<>>

\* a loading where the three sources disagree: max_pages is in the
\* environment and in the file, include_query in the file only, log_level
\* nowhere, and the file has a key that is no field
C26_Witness ==
    /\ loaded.outcome = "settings"
    /\ config_path = "parser.toml"
    /\ environ.PARSER_MAX_PAGES = Set(" 17 ") /\ config_data.max_pages = Present(1)
    /\ loaded.settings.max_pages = 17
    /\ ~environ.PARSER_INCLUDE_QUERY.set /\ config_data.include_query = Present(TRUE)
    /\ loaded.settings.include_query
    /\ ~environ.PARSER_LOG_LEVEL.set /\ ~config_data.log_level.present
    /\ loaded.settings.log_level = "INFO"
    /\ environ.PARSER_PHONE_REGIONS = Set("gb; ru,GB")
    /\ loaded.settings.phone_regions = <<"GB", "RU">>
    /\ config_data.proxy.present

\* the value an override gives a field once validated, stated per field:
\* an integer of 1..5000, a truth value, a level in capitals
MaxPagesGiven(value) ==
    CASE value.type = "number" -> value.number
      [] value.type = "bool" -> (IF value.flag THEN 1 ELSE 0)
      [] OTHER -> int(value.text)

Overridden(key) ==
    { i \in DOMAIN payload.overrides.items : payload.overrides.items[i].key = key }

GivenFor(key) == payload.overrides.items[CHOOSE i \in Overridden(key) : TRUE].value

\* the settings returned hold the validated values in exactly the overridden
\* fields, the loaded values in the others
ExactlyOverridden ==
    LET applied == response.applied.settings
    IN  /\ \A field \in Fields \ OverrideKeys : applied[field] = loaded.settings[field]
        /\ \A key \in OverrideKeys :
              Overridden(key) = {} => applied[key] = loaded.settings[key]
        /\ Overridden("max_pages") # {} =>
              /\ applied.max_pages = MaxPagesGiven(GivenFor("max_pages"))
              /\ applied.max_pages \in 1..5000
        /\ Overridden("include_query") # {} =>
              applied.include_query =
                  (GivenFor("include_query") \in {Bool(TRUE), String("Yes"), Number(1)})
        /\ Overridden("log_level") # {} =>
              applied.log_level = str_upper(strip(GivenFor("log_level").text))

\* C27: applying the overrides is all or nothing: _apply_overrides either
\* returns settings in which exactly the overridden fields hold their
\* validated values and every other field is unchanged, or it raises
\* ValueError, and then the endpoint answers 400 and parse_site is not called.
C27_OverridesAllOrNothing ==
    response.applied.raises # "not called" =>
        \/ response.applied.raises = "none" /\ ExactlyOverridden
        \/ /\ response.applied.raises = "ValueError"
           /\ response.status = 400
           /\ ~response.called

\* a key with a sensitive marker in it, in any case
Sensitive(key) ==
    \E marker \in {"token", "secret", "password", "api_key", "apikey", "cookie",
                   "authorization", "proxy"} :
        HasPart(str_lower(key), marker)

\* two texts with the same first three and last two characters, both longer
\* than six characters or both not
SameShown(a, b) ==
    LET First(text) == IF Len(text) <= 3 THEN text ELSE SubSeq(text, 1, 3)
        Last(text) == IF Len(text) <= 2 THEN text
                      ELSE SubSeq(text, Len(text) - 1, Len(text))
    IN  /\ First(a) = First(b)
        /\ Last(a) = Last(b)
        /\ (Len(a) > 6) = (Len(b) > 6)

\* the keys are kept and a value under a key that is not sensitive is
\* returned as it is
KeysAndOpenValuesKept ==
    /\ DOMAIN logged.sanitized = DOMAIN logged.value
    /\ \A key \in DOMAIN logged.value :
          ~Sensitive(key) => logged.sanitized[key] = logged.value[key]
    /\ \A key \in DOMAIN logged.value :
          Sensitive(key) => /\ logged.sanitized[key].kind = "str"
                            /\ HasPart(logged.sanitized[key].text, "***")

\* the mappings that differ from the logged one only in what Shown(a, b)
\* lets differ in the values of sensitive keys
DifferingInHidden(Shown(_, _)) ==
    LET sensitive == { key \in DOMAIN logged.value : Sensitive(key) }
    IN  { other \in [DOMAIN logged.value -> LogValues] :
            \A key \in DOMAIN other :
                IF key \in sensitive
                THEN Shown(other[key].text, logged.value[key].text)
                ELSE other[key] = logged.value[key] }

\* C28: sanitize_for_log keeps the keys, returns the values of other keys as
\* they are, and replaces each value of a sensitive key by a mask that depends
\* only on the value's first 3 and last 2 characters and on whether it is
\* longer than 6 characters: two inputs that differ only in the hidden
\* characters of sensitive values give the same output.
C28_MaskShowsFirstThreeLastTwo ==
    logged.returned =>
        /\ KeysAndOpenValuesKept
        /\ \A other \in DifferingInHidden(SameShown) :
              sanitize_for_log(other) = logged.sanitized

\* the same characters shown once the white space around both is removed
SameShownStripped(a, b) == SameShown(strip(a), strip(b))

\* C28, amended: the mask depends only on the first 3 and last 2 characters
\* of the value's text with the white space around it removed, and on
\* whether that text is longer than 6 characters.
C28_MaskShowsFirstThreeLastTwoOfStripped ==
    logged.returned =>
        /\ KeysAndOpenValuesKept
        /\ \A other \in DifferingInHidden(SameShownStripped) :
              sanitize_for_log(other) = logged.sanitized

\* a mapping was sanitized whose token has another with the same characters
\* shown, and whose other value came back as it was
C28_Witness ==
    /\ logged.returned
    /\ DOMAIN logged.value = {"Auth_Token", "max_pages"}
    /\ logged.value["Auth_Token"] = Value("str", "abcXYZde")
    /\ logged.value["max_pages"] = Value("int", "20")
    /\ logged.sanitized["Auth_Token"] = Value("str", "abc***de")
    /\ logged.sanitized["max_pages"] = Value("int", "20")
    /\ \E other \in DifferingInHidden(SameShownStripped) : other # logged.value

\* the last n entries of a list, all of them if it has fewer
LastOf(list, n) ==
    IF Len(list) <= n THEN list ELSE SubSeq(list, Len(list) - n + 1, Len(list))

\* C29: a list() called after a clear() has returned, with no entry appended
\* by an emit since that clearing, returns the empty list, whatever the
\* threads do at the same time; and the buffer never holds more than
\* max_records entries: it holds the newest of those appended since the last
\* clearing, the oldest being dropped first.
C29_EmptyAfterClearAndBounded ==
    /\ \A t \in Threads :
          (threads[t].listed /\ threads[t].after_clear) => threads[t].items = <<>>
    /\ Len(buffer._records) <= buffer.max_records
    /\ buffer._records = LastOf(emitted.all, buffer.max_records)

\* two entries were emitted into a buffer of one record, of which a list()
\* saw the newer; then the buffer was cleared, and a list() called after
\* that returned nothing
C29_Witness ==
    /\ buffer.max_records = 1
    /\ threads[1].listed /\ threads[1].items = <<2>>
    /\ threads[2].listed /\ threads[2].after_clear /\ threads[2].items = <<>>
    /\ emitted.cleared

\* C30: a run reports completed only if at exit the frontier and the
\* in-flight map are both empty, and reports max_pages only if at exit the
\* in-flight map is empty, the frontier is not, and scheduled >= max_pages.
C30_StopReasonAtExit ==
    pc = "done" =>
        /\ stop_reason = "completed" => (frontier = {} /\ in_flight = {})
        /\ stop_reason = "max_pages" =>
              /\ in_flight = {}
              /\ frontier # {}
              /\ scheduled >= settings.max_pages

\* a run that fetched pages up to its budget and left URLs in the frontier
C30_Witness ==
    /\ pc = "done"
    /\ stop_reason = "max_pages"
    /\ settings.max_pages > 1 /\ scheduled = settings.max_pages
    /\ processed_pages > 0
    /\ frontier # {} /\ in_flight = {}

\* no URL was put in the frontier twice: what a run is like when no page it
\* processed yielded the same canonical candidate more than once, since a URL
\* already discovered is no candidate (line 162) and only the candidates of
\* one page can repeat each other
NoCandidateRepeated == \A i, j \in pushed : i.url = j.url => i = j

\* C31: with max_pages >= 1, in a run where no processed page yields the
\* same canonical candidate URL more than once, a non-empty frontier implies
\* scheduled < max_pages in every reachable state; such a run never has
\* stop_reason max_pages, and unless the deadline passed it ends completed,
\* also when same-domain links were left out because the discovered set was
\* full.
C31_BudgetNeverStopsWithoutRepeats ==
    (settings.max_pages >= 1 /\ NoCandidateRepeated) =>
        /\ frontier # {} => scheduled < settings.max_pages
        /\ stop_reason # "max_pages"
        /\ (pc = "done" /\ ~expired) => stop_reason = "completed"

\* a run that used its whole budget, left same-domain links of a handled
\* page undiscovered, and ended completed
C31_Witness ==
    /\ pc = "done"
    /\ settings.max_pages >= 2
    /\ NoCandidateRepeated
    /\ scheduled = settings.max_pages
    /\ Cardinality(discovered) = settings.max_pages
    /\ \E future \in handled : LeftOut(future)
    /\ stop_reason = "completed"

\* the URL line 157 makes of the href at place i of a page
LinkAt(page, i) ==
    normalize_url(urljoin(page.final_url, page.hrefs[i]), settings.include_query)

\* C32: of each processed page only the first max_links_per_page hrefs, in
\* document order, are examined, and the cut comes before the hrefs with a
\* mailto, tel, javascript or data scheme are rejected: links_examined grows
\* by the number of hrefs up to max_links_per_page, those rejected among
\* them counted, every URL put in the frontier comes from one of them, and
\* links_enqueued <= links_examined at all times.
C32_FirstLinksExamined ==
    /\ [](links_enqueued <= links_examined)
    /\ [][\A future \in handled' \ handled :
            LET outcome == fetch(site, future.url, settings)
                page == outcome.page
                examined == links_examined' - links_examined
                cut == Min(Len(page.hrefs), settings.max_links_per_page)
            IN  IF outcome.ok /\ page.soup /\ ~DepthStops(future.depth)
                THEN /\ examined = cut
                     /\ \A item \in frontier' \ frontier :
                          \E i \in 1..cut : /\ is_probably_parseable_href(page.hrefs[i])
                                            /\ item.url = LinkAt(page, i)
                ELSE examined = 0 /\ frontier' = frontier]_vars

\* the start page was cut at three hrefs, two of them not followed: three
\* links were examined, one was put in the frontier, and two links to pages
\* of the site beyond the cut were left out
C32_Witness ==
    /\ settings.max_links_per_page = 3
    /\ settings.max_pages >= 3
    /\ \E future \in handled : future.url = normalized_start /\ future.depth = 0
    /\ handled # {} /\ Cardinality(handled) = 1
    /\ links_examined = 3
    /\ links_enqueued = 1
    /\ {item.url.path : item \in pushed} = {"/", "/a"}

\* C33 (as claimed): at every boundary between iterations of the main loop,
\* and in the diagnostics, |frontier| + scheduled = |discovered| =
\* links_enqueued + 1: every discovered URL is still queued or was dispatched
\* exactly once.
C33_QueuedOrDispatchedOnce ==
    pc \in {"top", "finish", "done"} =>
        /\ Cardinality(frontier) + scheduled = Cardinality(discovered)
        /\ Cardinality(discovered) = links_enqueued + 1
        /\ \A url \in discovered :
             Cardinality({item \in frontier : item.url = url})
               + Cardinality({future \in dispatched : future.url = url}) = 1

\* the sum of the counts of a dict of counters
RECURSIVE SumOf(_, _)
SumOf(counts, keys) ==
    IF keys = {} THEN 0
    ELSE LET key == CHOOSE k \in keys : TRUE
         IN  counts[key] + SumOf(counts, keys \ {key})

\* C34: at every boundary between iterations of the main loop, scheduled =
\* fetched_pages + failed_pages + |in_flight|, fetched_pages =
\* processed_pages + skipped_soup_parse, and failed_pages is the sum of the
\* counts of failure_reasons; a run that ends completed or max_pages ends
\* with nothing in flight, so that its diagnostics have scheduled_pages =
\* fetched_pages + failed_pages.
C34_CountersAddUp ==
    /\ pc \in {"top", "finish", "done"} =>
         /\ scheduled = fetched_ok + fetched_failed + Cardinality(in_flight)
         /\ fetched_ok = processed_pages + skipped_soup_parse
         /\ fetched_failed = SumOf(failure_reasons, DOMAIN failure_reasons)
    /\ (pc = "done" /\ stop_reason \in {"completed", "max_pages"}) =>
         /\ in_flight = {}
         /\ scheduled = fetched_ok + fetched_failed

\* a run that ended completed after a fetch that raised, a page that did not
\* parse and pages that were processed
C34_Witness ==
    /\ pc = "done"
    /\ stop_reason = "completed"
    /\ failure_reasons["future_exception"] > 0
    /\ skipped_soup_parse > 0
    /\ processed_pages > 1
    /\ scheduled = 4

\* C35 (as claimed): a dispatched URL other than the start URL whose fetch
\* was redirected to a final URL with a hostname key other than the base
\* hostname key contributes no e-mails and no phones to the result.
C35_NoContactsFromOtherHosts ==
    [][\A future \in handled' \ handled :
        LET outcome == fetch(site, future.url, settings)
        IN  ( /\ future.url # normalized_start
              /\ outcome.ok
              /\ hostname_key(outcome.page.final_url) # base_hostname )
            => emails' = emails /\ phones' = phones]_vars

\* the sessions a thread's fetches used
UsedBy(thread) == {use.session : use \in {u \in session_uses : u.thread = thread}}

\* the threads whose fetches used a session
UsersOf(session) == {use.thread : use \in {u \in session_uses : u.session = session}}

\* the Session object with this id
SessionObject(id) == CHOOSE session \in sessions : session.id = id

\* C36: without an injected session each worker thread creates its own
\* session, with the retry adapter mounted, on its first fetch and uses it
\* for all its later fetches, so that no session is used by two threads; with
\* an injected session every fetch of every worker uses that one session, and
\* the client creates no session and mounts nothing on the injected one.
C36_SessionPerWorkerOrInjected ==
    /\ [](http_client.session = NoSession =>
            /\ \A thread \in Workers :
                 /\ Cardinality(UsedBy(thread)) <= 1
                 /\ UsedBy(thread) =
                      IF http_client.local[thread] = NoSession THEN {}
                      ELSE {http_client.local[thread]}
            /\ \A session \in sessions :
                 /\ Cardinality(UsersOf(session.id)) = 1
                 /\ session.mounts = {"http://", "https://"}
            /\ Cardinality(sessions) = Cardinality({use.thread : use \in session_uses}))
    /\ [](http_client.session # NoSession =>
            /\ \A use \in session_uses : use.session = http_client.session
            /\ sessions = {[id |-> http_client.session, mounts |-> {}]}
            /\ \A thread \in Workers : http_client.local[thread] = NoSession)
    /\ [][/\ http_client'.session = http_client.session
          /\ \A thread \in Workers :
               /\ http_client.local[thread] # NoSession =>
                    http_client'.local[thread] = http_client.local[thread]
               /\ (http_client.session = NoSession /\ UsedBy(thread) = {}
                     /\ UsedBy(thread)' # {}) =>
                    /\ http_client'.local[thread] \notin {s.id : s \in sessions}
                    /\ http_client'.local[thread] \in {s.id : s \in sessions'}]_vars

\* three workers have each fetched more than once, each with a session of
\* its own
C36_Witness ==
    /\ http_client.session = NoSession
    /\ Cardinality(sessions) = 3
    /\ \A thread \in Workers :
         /\ Cardinality({use \in session_uses : use.thread = thread}) >= 2
         /\ UsedBy(thread) = {http_client.local[thread]}
    /\ \A t1, t2 \in Workers : t1 # t2 => UsedBy(t1) # UsedBy(t2)

\* three workers have each fetched more than once with the injected session
C36_WitnessInjected ==
    /\ http_client.session # NoSession
    /\ \A thread \in Workers :
         /\ Cardinality({use \in session_uses : use.thread = thread}) >= 2
         /\ UsedBy(thread) = {http_client.session}

\* the place, among all the entries ever appended, of the entry at place i
\* of the deque: the deque holds the newest entries
SerialOf(i) == Len(emitted.ever) - Len(buffer._records) + i

\* thread t reads the buffer, line 61, for a list(after=N) where N is the
\* highest id it has seen
PollReads(t) ==
    /\ threads[t].pc = "list: copy"
    /\ threads'[t].pc = "list: return"
    /\ threads[t].after = threads[t].seen

\* C37 (as claimed): the ids of the entries of a buffer are unique over its
\* lifetime and strictly increasing in the order of emission; and a client
\* that polls list(after=N), N being the highest id it has seen, is returned
\* every entry that was emitted after its last observation and is still in
\* the buffer, under every interleaving of emit, list and clear.
C37_PollReturnsEveryNewEntry ==
    /\ [](\A i, j \in 1..Len(emitted.ever) :
             i < j => emitted.ever[i] < emitted.ever[j])
    /\ [][\A t \in Threads :
            PollReads(t) =>
              \A i \in 1..Len(buffer._records) :
                 SerialOf(i) > threads[t].seen_at =>
                    \E k \in 1..Len(threads'[t].items) :
                       threads'[t].items[k] = buffer._records[i]]_vars
====
